---- MODULE Spec2Model ----
(***************************************************************************)
(* A model of the bucket engine of src/bucket/Bucket.cpp: the two-way      *)
(* merge of an old and a new bucket under a list of shadow buckets         *)
(* (Bucket::merge and its helpers), run one loop iteration at a time, and  *)
(* the same merge run to completion as a function, applied to a list of    *)
(* buckets ordered newest to oldest.                                       *)
(***************************************************************************)
EXTENDS Integers, Sequences, FiniteSets, TLC

(***************************************************************************)
(* Bounds of the model.                                                    *)
(***************************************************************************)
\* ledger keys are 1..MaxKey
MaxKey == 2
\* entry payloads are 1..MaxVal
MaxVal == 2
\* a merge is given at most MaxShadows shadow buckets
MaxShadows == 1
\* protocol versions run from the last one before INITENTRY to MaxVersion
MaxVersion == 12
\* shadows of a merge in the specification of the version calculation
MaxVersionShadows == 2
\* the modelled bucket list: ListLen buckets over keys 1..ListKeys and
\* payloads 1..ListVals
ListLen == 5
ListKeys == 1
ListVals == 2
\* the long buckets of the specification of the commit point hold LongLen
\* entries each
LongLen == 1000
\* merges completed one after the other in the specification of repeated
\* merges
MaxMerges == 3
\* Bucket::fresh is given vectors of at most FreshLen entries of keys
\* 1..FreshKeys
FreshLen == 2
FreshKeys == 3
\* a scanned bucket holds records of keys 1..ScanKeys, each of 1..MaxRecBytes
\* bytes; the budgets of a scan are at most MaxBytes bytes and MaxEvict
\* entries; a TTL entry lives until a ledger in 1..MaxLiveUntil and the
\* scan is at ledger MaxLiveUntil
ScanKeys == 2
MaxRecBytes == 2
MaxBytes == 5
MaxEvict == 2
MaxLiveUntil == 2

\* the calls of scanForEviction on one iterator
MaxCalls == 2

\* the bucket handles: their hashes, file sizes and indexes
MaxHash == 2
MaxFileSize == 2
MaxIndex == 2

\* the lookups: the keys, the buckets gone through, the records of a page
MaxLookupKey == 3
MaxLevels == 2
PageSize == 2

(***************************************************************************)
(* Program constants.                                                      *)
(***************************************************************************)
FIRST_PROTOCOL_SUPPORTING_INITENTRY_AND_METAENTRY == 11
FIRST_PROTOCOL_SHADOWS_REMOVED == 12
SOROBAN_PROTOCOL_VERSION == 20
\* the merge loop polls for shutdown when ++iter reaches this value
ShutdownPollPeriod == 1000

(***************************************************************************)
(* Record model: the tagged union BucketEntry.                             *)
(***************************************************************************)
METAENTRY == "METAENTRY"
INITENTRY == "INITENTRY"
LIVEENTRY == "LIVEENTRY"
DEADENTRY == "DEADENTRY"

Keys == 1..MaxKey
Vals == 1..MaxVal
Versions == (FIRST_PROTOCOL_SUPPORTING_INITENTRY_AND_METAENTRY - 1)..MaxVersion

\* A LIVEENTRY or INITENTRY carries a ledger entry (key and value), a
\* DEADENTRY carries only the ledger key (val 0).
LiveEntry(k, v) == [type |-> LIVEENTRY, key |-> k, val |-> v]
InitEntry(k, v) == [type |-> INITENTRY, key |-> k, val |-> v]
DeadEntry(k) == [type |-> DEADENTRY, key |-> k, val |-> 0]

\* What a bucket may hold for one key: nothing (a record of type "none"), or
\* one entry.
None == [type |-> "none", key |-> 0, val |-> 0]
EntriesFor(k, vals) ==
    {DeadEntry(k)} \cup {LiveEntry(k, v) : v \in vals} \cup {InitEntry(k, v) : v \in vals}

RECURSIVE SeqOfChoice(_, _, _)
SeqOfChoice(f, k, hi) ==
    IF k > hi THEN <<>>
    ELSE (IF f[k] = None THEN <<>> ELSE <<f[k]>>) \o SeqOfChoice(f, k + 1, hi)

\* All entry sequences over keys 1..hi that are strictly ascending by key:
\* what a BucketInputIterator yields after the leading META.
SortedEntrySeqs(hi, vals) ==
    LET Choice == UNION {[1..hi -> UNION {EntriesFor(k, vals) : k \in 1..hi} \cup {None}]}
    IN {SeqOfChoice(f, 1, hi) :
          f \in {g \in Choice : \A k \in 1..hi : g[k] = None \/ g[k].key = k}}

\* A bucket as an input iterator sees it: the ledgerVersion of its META and
\* the entries after it.
MkBucket(v, es) == [version |-> v, entries |-> es]

KeysOf(es) == {es[i].key : i \in 1..Len(es)}

\* BucketEntryIdCmp: strictly-less on the ledger key alone.
Cmp(a, b) == a.key < b.key

StrictlyAscending(es) == \A i \in 1..(Len(es) - 1) : Cmp(es[i], es[i + 1])

Max(a, b) == IF a > b THEN a ELSE b

protocolVersionIsBefore(v, w) == v < w
protocolVersionStartsFrom(v, w) == v >= w

(***************************************************************************)
(* MergeCounters: the counters the merge updates.                          *)
(***************************************************************************)
EntryTypes == {METAENTRY, INITENTRY, LIVEENTRY, DEADENTRY}

ZeroCounters ==
    [mPreInitEntryProtocolMerges |-> 0,
     mPostInitEntryProtocolMerges |-> 0,
     mPreShadowRemovalProtocolMerges |-> 0,
     mPostShadowRemovalProtocolMerges |-> 0,
     mOldEntriesDefaultAccepted |-> 0,
     mNewEntriesDefaultAccepted |-> 0,
     mNewInitEntriesMergedWithOldDead |-> 0,
     mOldInitEntriesMergedWithNewLive |-> 0,
     mOldInitEntriesMergedWithNewDead |-> 0,
     mNewEntriesMergedWithOldNeitherInit |-> 0,
     mShadowScanSteps |-> 0,
     mShadowElisions |-> [t \in EntryTypes |-> 0],
     mOldEntries |-> [t \in EntryTypes |-> 0],
     mNewEntries |-> [t \in EntryTypes |-> 0]]

countShadowedEntryType(mc, e) ==
    [mc EXCEPT !.mShadowElisions[e.type] = @ + 1]

countOldEntryType(mc, e) ==
    [mc EXCEPT !.mOldEntries[e.type] = @ + 1]

countNewEntryType(mc, e) ==
    [mc EXCEPT !.mNewEntries[e.type] = @ + 1]

(***************************************************************************)
(* Input cursor: a forward scan of a bucket's entries; metadata is the     *)
(* ledgerVersion of the leading META.                                      *)
(***************************************************************************)
InputIterator(b) == [metadata |-> b.version, entries |-> b.entries, pos |-> 1]

\* operator bool
ItValid(it) == it.pos <= Len(it.entries)

\* operator*
Deref(it) == it.entries[it.pos]

\* operator++
Advance(it) == [it EXCEPT !.pos = @ + 1]

(***************************************************************************)
(* Output builder.  puts is the sequence of entries handed to put,         *)
(* written the sequence of entries that reached the file, created whether  *)
(* the builder has been constructed.                                       *)
(***************************************************************************)
OutputIterator(keepDead, meta) ==
    [created |-> TRUE, keepDeadEntries |-> keepDead, meta |-> meta,
     puts |-> <<>>, written |-> <<>>, failed |-> FALSE]

\* no builder: the merge has not constructed one
NoOutput == [OutputIterator(TRUE, 0) EXCEPT !.created = FALSE]

\* put: a DEADENTRY is filtered out when keepDeadEntries is false; an entry
\* that does not come strictly after the last written one is fatal.
put(out, e) ==
    LET handed == [out EXCEPT !.puts = Append(@, e)]
    IN IF e.type = DEADENTRY /\ ~out.keepDeadEntries THEN handed
       ELSE IF Len(out.written) > 0 /\ ~Cmp(out.written[Len(out.written)], e)
            THEN [handed EXCEPT !.failed = TRUE]
            ELSE [handed EXCEPT !.written = Append(@, e)]

\* getBucket: the published bucket carries the builder's META and the
\* entries written.
getBucket(out) == MkBucket(out.meta, out.written)

(***************************************************************************)
(* Bucket::checkProtocolLegality: TRUE when it throws.                     *)
(***************************************************************************)
\* Mutant of checkProtocolLegality: only METAENTRY is refused.
checkProtocolLegality_MetaOnly(entry, protocolVersion) ==
    /\ protocolVersionIsBefore(protocolVersion,
                               FIRST_PROTOCOL_SUPPORTING_INITENTRY_AND_METAENTRY)
    /\ entry.type = METAENTRY

checkProtocolLegality(entry, protocolVersion) ==
    /\ protocolVersionIsBefore(protocolVersion,
                               FIRST_PROTOCOL_SUPPORTING_INITENTRY_AND_METAENTRY)
    /\ (entry.type = INITENTRY \/ entry.type = METAENTRY)

(***************************************************************************)
(* maybePut.                                                               *)
(***************************************************************************)
\* Mutants of NeverShadowedOut: the shadowing of the protocols before
\* INITENTRY at every protocol; tombstones not exempt; INITENTRY not exempt.
NeverShadowedOut_Never(entry, keepShadowedLifecycleEntries) == FALSE

NeverShadowedOut_InitOnly(entry, keepShadowedLifecycleEntries) ==
    keepShadowedLifecycleEntries /\ entry.type = INITENTRY

NeverShadowedOut_DeadOnly(entry, keepShadowedLifecycleEntries) ==
    keepShadowedLifecycleEntries /\ entry.type = DEADENTRY

\* the test that puts an entry without scanning the shadows
NeverShadowedOut(entry, keepShadowedLifecycleEntries) ==
    keepShadowedLifecycleEntries /\
    (entry.type = INITENTRY \/ entry.type = DEADENTRY)

\* Mutant of AdvanceWhileLess: the cursor also steps over an entry of equal
\* key.
RECURSIVE AdvanceWhileLess_OrEqual(_, _)
AdvanceWhileLess_OrEqual(si, entry) ==
    IF ItValid(si) /\ ~Cmp(entry, Deref(si))
    THEN AdvanceWhileLess_OrEqual(Advance(si), entry)
    ELSE si

\* while (si && cmp(*si, entry)) ++si;
RECURSIVE AdvanceWhileLess(_, _)
AdvanceWhileLess(si, entry) ==
    IF ItValid(si) /\ Cmp(Deref(si), entry)
    THEN AdvanceWhileLess(Advance(si), entry)
    ELSE si

\* Mutant of ShadowHit: the negation dropped.
ShadowHit_NotNegated(si, entry) == ItValid(si) /\ Cmp(entry, Deref(si))

\* if (si && !cmp(entry, *si)): the shadow holds an entry of equal key
ShadowHit(si, entry) == ItValid(si) /\ ~Cmp(entry, Deref(si))

\* for (auto& si : shadowIterators), from the i-th shadow on; returns at
\* the first shadow that holds the entry's key.
RECURSIVE ScanShadows(_, _, _)
ScanShadows(sis, i, entry) ==
    IF i > Len(sis) THEN [shadowIterators |-> sis, shadowed |-> FALSE]
    ELSE LET sis2 == [sis EXCEPT ![i] = AdvanceWhileLess(sis[i], entry)]
         IN IF ShadowHit(sis2[i], entry)
            THEN [shadowIterators |-> sis2, shadowed |-> TRUE]
            ELSE ScanShadows(sis2, i + 1, entry)

RECURSIVE SumPos(_, _)
SumPos(sis, i) == IF i > Len(sis) THEN 0 ELSE sis[i].pos + SumPos(sis, i + 1)

\* The part of the merge's state maybePut works on is m.out,
\* m.shadowIterators and m.mc.
maybePut(m, entry) ==
    IF NeverShadowedOut(entry, m.keepShadowedLifecycleEntries)
    THEN [m EXCEPT !.out = put(@, entry)]
    ELSE LET r == ScanShadows(m.shadowIterators, 1, entry)
             scanned == [m EXCEPT !.shadowIterators = r.shadowIterators,
                                  !.mc.mShadowScanSteps =
                                      @ + SumPos(r.shadowIterators, 1)
                                        - SumPos(m.shadowIterators, 1)]
         IN IF r.shadowed
            THEN [scanned EXCEPT !.mc = countShadowedEntryType(@, entry)]
            ELSE [scanned EXCEPT !.out = put(@, entry)]

(***************************************************************************)
(* calculateMergeProtocolVersion.                                          *)
(***************************************************************************)
\* Mutants of ShadowVersionStep: every shadow counts; no shadow counts.
ShadowVersionStep_EveryShadow(version, protocolVersion) ==
    Max(version, protocolVersion)

ShadowVersionStep_NoShadow(version, protocolVersion) == protocolVersion

\* the body of the loop over the shadows
ShadowVersionStep(version, protocolVersion) ==
    IF protocolVersionIsBefore(version, FIRST_PROTOCOL_SHADOWS_REMOVED)
    THEN Max(version, protocolVersion)
    ELSE protocolVersion

RECURSIVE ShadowVersionLoop(_, _, _)
ShadowVersionLoop(sis, i, protocolVersion) ==
    IF i > Len(sis) THEN protocolVersion
    ELSE ShadowVersionLoop(sis, i + 1,
                           ShadowVersionStep(sis[i].metadata, protocolVersion))

NoError == "none"
ErrCeiling == "bucket protocol version exceeds maxProtocolVersion"
ErrShadows == "Shadows are not supported"
ErrLegality == "unsupported entry type in protocol bucket"
ErrMalformed == "Malformed bucket: old non-DEAD + new INIT."
ErrShutdown == "Incomplete bucket merge due to BucketManager shutdown"
ErrPut == "output entries out of order"

\* Mutant of ExceedsCeiling: the ceiling itself refused.
ExceedsCeiling_AtOrAbove(protocolVersion, maxPV) == protocolVersion >= maxPV

\* if (protocolVersion > maxProtocolVersion)
ExceedsCeiling(protocolVersion, maxPV) == protocolVersion > maxPV

\* Mutant of ShadowsUnsupported: the test of the shadows dropped.
ShadowsUnsupported_Never(protocolVersion, sis) == FALSE

\* the else-branch of the test against FIRST_PROTOCOL_SHADOWS_REMOVED with
\* if (!shadowIterators.empty())
ShadowsUnsupported(protocolVersion, sis) ==
    /\ ~protocolVersionIsBefore(protocolVersion, FIRST_PROTOCOL_SHADOWS_REMOVED)
    /\ Len(sis) > 0

\* Returns the two out-parameters, the counters and the exception thrown.
calculateMergeProtocolVersion(mc, maxPV, oi, ni, sis) ==
    LET pv == ShadowVersionLoop(sis, 1, Max(oi.metadata, ni.metadata))
        keep == ~protocolVersionIsBefore(
                     pv, FIRST_PROTOCOL_SUPPORTING_INITENTRY_AND_METAENTRY)
        mc1 == IF keep
               THEN [mc EXCEPT !.mPostInitEntryProtocolMerges = @ + 1]
               ELSE [mc EXCEPT !.mPreInitEntryProtocolMerges = @ + 1]
        preRemoval == protocolVersionIsBefore(pv, FIRST_PROTOCOL_SHADOWS_REMOVED)
    IN IF ExceedsCeiling(pv, maxPV)
       THEN [protocolVersion |-> pv, keepShadowedLifecycleEntries |-> FALSE,
             mc |-> mc, threw |-> ErrCeiling]
       ELSE IF preRemoval
       THEN [protocolVersion |-> pv, keepShadowedLifecycleEntries |-> keep,
             mc |-> [mc1 EXCEPT !.mPreShadowRemovalProtocolMerges = @ + 1],
             threw |-> NoError]
       ELSE IF ShadowsUnsupported(pv, sis)
       THEN [protocolVersion |-> pv, keepShadowedLifecycleEntries |-> keep,
             mc |-> mc1, threw |-> ErrShadows]
       ELSE [protocolVersion |-> pv, keepShadowedLifecycleEntries |-> keep,
             mc |-> [mc1 EXCEPT !.mPostShadowRemovalProtocolMerges = @ + 1],
             threw |-> NoError]

(***************************************************************************)
(* Bucket::merge.  The frame of one call is a record m:                    *)
(*   pc                 "begin", "loop", "done" or "error"                 *)
(*   oi, ni             the input iterators of the old and the new bucket  *)
(*   shadowIterators    the input iterators of the shadows                 *)
(*   protocolVersion, keepShadowedLifecycleEntries, mc, out, iter          *)
(*   threw              the exception that ended the call, or NoError      *)
(***************************************************************************)
Throw(m, err) == [m EXCEPT !.pc = "error", !.threw = err]

\* an entry handed to a builder that rejects it ends the merge
AfterPut(m) == IF m.out.failed THEN Throw(m, ErrPut) ELSE m

RECURSIVE IteratorsOf(_, _)
IteratorsOf(bs, i) ==
    IF i > Len(bs) THEN <<>> ELSE <<InputIterator(bs[i])>> \o IteratorsOf(bs, i + 1)

\* Mutant of MetaLedgerVersion: the output is stamped with the ceiling.
MetaLedgerVersion_Ceiling(protocolVersion, maxPV) == maxPV

\* meta.ledgerVersion = protocolVersion
MetaLedgerVersion(protocolVersion, maxPV) == protocolVersion

\* Lines 965-987: the iterators, calculateMergeProtocolVersion, the builder.
MergeBeginFrame(old, new, shs, keepDead, maxPV) ==
    LET oi == InputIterator(old)
        ni == InputIterator(new)
        sis == IteratorsOf(shs, 1)
        c == calculateMergeProtocolVersion(ZeroCounters, maxPV, oi, ni, sis)
        m == [pc |-> "loop", oi |-> oi, ni |-> ni, shadowIterators |-> sis,
              protocolVersion |-> c.protocolVersion,
              keepShadowedLifecycleEntries |-> c.keepShadowedLifecycleEntries,
              mc |-> c.mc,
              out |-> OutputIterator(
                          keepDead, MetaLedgerVersion(c.protocolVersion, maxPV)),
              iter |-> 0, threw |-> NoError]
    IN IF c.threw # NoError
       THEN Throw([m EXCEPT !.out = NoOutput], c.threw)
       ELSE m

\* Mutant of TakeOld: the comparison reversed.
TakeOld_Reversed(m) ==
    \/ ~ItValid(m.ni)
    \/ (ItValid(m.oi) /\ ItValid(m.ni) /\ Cmp(Deref(m.ni), Deref(m.oi)))

\* if (!ni || (oi && ni && cmp(*oi, *ni)))
TakeOld(m) ==
    \/ ~ItValid(m.ni)
    \/ (ItValid(m.oi) /\ ItValid(m.ni) /\ Cmp(Deref(m.oi), Deref(m.ni)))

\* else if (!oi || (oi && ni && cmp(*ni, *oi)))
TakeNew(m) ==
    \/ ~ItValid(m.oi)
    \/ (ItValid(m.oi) /\ ItValid(m.ni) /\ Cmp(Deref(m.ni), Deref(m.oi)))

\* Mutant of mergeCasesWithDefaultAcceptance: an entry accepted from the new
\* bucket is counted and passed, but not handed to maybePut.
mergeCasesWithDefaultAcceptance_NewNotPut(m) ==
    IF TakeOld(m)
    THEN LET e == Deref(m.oi)
             m1 == [m EXCEPT !.mc.mOldEntriesDefaultAccepted = @ + 1]
         IN IF checkProtocolLegality(e, m.protocolVersion)
            THEN Throw(m1, ErrLegality)
            ELSE LET m2 == maybePut([m1 EXCEPT !.mc = countOldEntryType(@, e)], e)
                 IN AfterPut([m2 EXCEPT !.oi = Advance(@)])
    ELSE LET e == Deref(m.ni)
             m1 == [m EXCEPT !.mc.mNewEntriesDefaultAccepted = @ + 1]
         IN IF checkProtocolLegality(e, m.protocolVersion)
            THEN Throw(m1, ErrLegality)
            ELSE LET m2 == [m1 EXCEPT !.mc = countNewEntryType(@, e)]
                 IN AfterPut([m2 EXCEPT !.ni = Advance(@)])

\* mergeCasesWithDefaultAcceptance; called only when it returns true.
mergeCasesWithDefaultAcceptance(m) ==
    IF TakeOld(m)
    THEN LET e == Deref(m.oi)
             m1 == [m EXCEPT !.mc.mOldEntriesDefaultAccepted = @ + 1]
         IN IF checkProtocolLegality(e, m.protocolVersion)
            THEN Throw(m1, ErrLegality)
            ELSE LET m2 == maybePut([m1 EXCEPT !.mc = countOldEntryType(@, e)], e)
                 IN AfterPut([m2 EXCEPT !.oi = Advance(@)])
    ELSE LET e == Deref(m.ni)
             m1 == [m EXCEPT !.mc.mNewEntriesDefaultAccepted = @ + 1]
         IN IF checkProtocolLegality(e, m.protocolVersion)
            THEN Throw(m1, ErrLegality)
            ELSE LET m2 == maybePut([m1 EXCEPT !.mc = countNewEntryType(@, e)], e)
                 IN AfterPut([m2 EXCEPT !.ni = Advance(@)])

\* Mutants of EqualKeysResult: INIT + DEAD leaves the tombstone; DEAD + INIT
\* stays INIT; a pair without INIT gives the old entry; a new INIT is
\* accepted over an old LIVE.
EqualKeysResult_NoAnnihilation(oldEntry, newEntry) ==
    IF newEntry.type = INITENTRY
    THEN IF oldEntry.type # DEADENTRY
         THEN [type |-> "error", key |-> newEntry.key, val |-> 0]
         ELSE LiveEntry(newEntry.key, newEntry.val)
    ELSE IF oldEntry.type = INITENTRY /\ newEntry.type = LIVEENTRY
    THEN InitEntry(newEntry.key, newEntry.val)
    ELSE newEntry

EqualKeysResult_InitStaysInit(oldEntry, newEntry) ==
    IF newEntry.type = INITENTRY
    THEN IF oldEntry.type # DEADENTRY
         THEN [type |-> "error", key |-> newEntry.key, val |-> 0]
         ELSE newEntry
    ELSE IF oldEntry.type = INITENTRY
    THEN IF newEntry.type = LIVEENTRY
         THEN InitEntry(newEntry.key, newEntry.val)
         ELSE None
    ELSE newEntry

EqualKeysResult_TakeOld(oldEntry, newEntry) ==
    IF newEntry.type = INITENTRY
    THEN IF oldEntry.type # DEADENTRY
         THEN [type |-> "error", key |-> newEntry.key, val |-> 0]
         ELSE LiveEntry(newEntry.key, newEntry.val)
    ELSE IF oldEntry.type = INITENTRY
    THEN IF newEntry.type = LIVEENTRY
         THEN InitEntry(oldEntry.key, oldEntry.val)
         ELSE None
    ELSE oldEntry

EqualKeysResult_AcceptLiveInit(oldEntry, newEntry) ==
    IF newEntry.type = INITENTRY
    THEN IF oldEntry.type = INITENTRY
         THEN [type |-> "error", key |-> newEntry.key, val |-> 0]
         ELSE LiveEntry(newEntry.key, newEntry.val)
    ELSE IF oldEntry.type = INITENTRY
    THEN IF newEntry.type = LIVEENTRY
         THEN InitEntry(newEntry.key, newEntry.val)
         ELSE None
    ELSE newEntry

\* The lifecycle table of mergeCasesWithEqualKeys: what the pair becomes.
\* "error" for a new INIT over an old non-DEAD, None for INIT + DEAD,
\* otherwise the candidate handed to maybePut.
EqualKeysResult(oldEntry, newEntry) ==
    IF newEntry.type = INITENTRY
    THEN IF oldEntry.type # DEADENTRY
         THEN [type |-> "error", key |-> newEntry.key, val |-> 0]
         ELSE LiveEntry(newEntry.key, newEntry.val)
    ELSE IF oldEntry.type = INITENTRY
    THEN IF newEntry.type = LIVEENTRY
         THEN InitEntry(newEntry.key, newEntry.val)
         ELSE None
    ELSE newEntry

EqualKeysCounter(m, oldEntry, newEntry) ==
    IF newEntry.type = INITENTRY
    THEN [m EXCEPT !.mc.mNewInitEntriesMergedWithOldDead = @ + 1]
    ELSE IF oldEntry.type = INITENTRY
    THEN IF newEntry.type = LIVEENTRY
         THEN [m EXCEPT !.mc.mOldInitEntriesMergedWithNewLive = @ + 1]
         ELSE [m EXCEPT !.mc.mOldInitEntriesMergedWithNewDead = @ + 1]
    ELSE [m EXCEPT !.mc.mNewEntriesMergedWithOldNeitherInit = @ + 1]

\* Mutant of AdvanceBoth: the old cursor is left on the pair.
AdvanceBoth_NewOnly(m) == [m EXCEPT !.ni = Advance(@)]

\* ++oi; ++ni;
AdvanceBoth(m) == [m EXCEPT !.oi = Advance(@), !.ni = Advance(@)]

mergeCasesWithEqualKeys(m) ==
    LET oldEntry == Deref(m.oi)
        newEntry == Deref(m.ni)
        r == EqualKeysResult(oldEntry, newEntry)
    IN IF checkProtocolLegality(oldEntry, m.protocolVersion)
          \/ checkProtocolLegality(newEntry, m.protocolVersion)
       THEN Throw(m, ErrLegality)
       ELSE LET m1 == [m EXCEPT !.mc = countNewEntryType(
                                          countOldEntryType(@, oldEntry), newEntry)]
            IN IF r.type = "error"
               THEN Throw(m1, ErrMalformed)
               ELSE LET m2 == EqualKeysCounter(m1, oldEntry, newEntry)
                        m3 == IF r = None THEN m2 ELSE maybePut(m2, r)
                    IN AfterPut(AdvanceBoth(m3))

\* Mutant of MergeLoopGuard: the loop ends when either input is exhausted.
MergeLoopGuard_Both(m) == ItValid(m.oi) /\ ItValid(m.ni)

\* while (oi || ni)
MergeLoopGuard(m) == ItValid(m.oi) \/ ItValid(m.ni)

\* Mutant of PollDue: the flag is polled at every iteration.
PollDue_Always(iter) == iter + 1 >= 1

\* if (++iter >= 1000)
PollDue(iter) == iter + 1 >= ShutdownPollPeriod

\* One iteration of the loop of Bucket::merge (lines 989-1013); shutdown is
\* what bucketManager.isShutdown() answers if it is polled.
MergeLoopBody(m, shutdown) ==
    LET poll == PollDue(m.iter)
        m1 == [m EXCEPT !.iter = IF poll THEN 0 ELSE @ + 1]
    IN IF poll /\ shutdown
       THEN Throw(m1, ErrShutdown)
       ELSE IF TakeOld(m1) \/ TakeNew(m1)
            THEN mergeCasesWithDefaultAcceptance(m1)
            ELSE mergeCasesWithEqualKeys(m1)

\* The loop run to its end.
RECURSIVE MergeLoop(_, _)
MergeLoop(m, shutdown) ==
    IF m.pc = "loop" /\ MergeLoopGuard(m)
    THEN MergeLoop(MergeLoopBody(m, shutdown), shutdown)
    ELSE m

\* Bucket::merge as a function: the frame at the end of the call.
MergeFrame(old, new, shs, keepDead, maxPV, shutdown) ==
    LET m == MergeLoop(MergeBeginFrame(old, new, shs, keepDead, maxPV), shutdown)
    IN IF m.pc = "loop" THEN [m EXCEPT !.pc = "done"] ELSE m

(***************************************************************************)
(* Bucket::fresh.  The frame of one call is a record f:                    *)
(*   pc                 "idle", "begin", "put", "done" or "abort"          *)
(*   protocolVersion, initEntries, liveEntries, deadEntries,               *)
(*   countMergeEvents   the arguments: the ledger entries are records of   *)
(*                      a key and a value, the dead ones are keys          *)
(*   entries            the vector convertToBucketEntry returned           *)
(*   pos                the index of the next entry to put                 *)
(*   out                the output builder                                 *)
(***************************************************************************)
\* Mutant of UseInit: INITENTRY only after the first protocol that has it.
UseInit_After(protocolVersion) ==
    protocolVersion > FIRST_PROTOCOL_SUPPORTING_INITENTRY_AND_METAENTRY

\* bool useInit = protocolVersionStartsFrom(...)
UseInit(protocolVersion) ==
    protocolVersionStartsFrom(protocolVersion,
                              FIRST_PROTOCOL_SUPPORTING_INITENTRY_AND_METAENTRY)

\* the three loops of convertToBucketEntry
TagInit(useInit, es) ==
    [i \in 1..Len(es) |->
        IF useInit THEN InitEntry(es[i].key, es[i].val)
        ELSE LiveEntry(es[i].key, es[i].val)]

TagLive(es) == [i \in 1..Len(es) |-> LiveEntry(es[i].key, es[i].val)]

TagDead(ks) == [i \in 1..Len(ks) |-> DeadEntry(ks[i])]

\* std::sort(bucket.begin(), bucket.end(), cmp), as an insertion sort
RECURSIVE InsertSorted(_, _)
InsertSorted(e, es) ==
    IF es = <<>> THEN <<e>>
    ELSE IF Cmp(e, Head(es)) THEN <<e>> \o es
    ELSE <<Head(es)>> \o InsertSorted(e, Tail(es))

RECURSIVE SortEntries(_)
SortEntries(es) ==
    IF es = <<>> THEN <<>>
    ELSE InsertSorted(Head(es), SortEntries(Tail(es)))

\* std::adjacent_find(..., !cmp(lhs, rhs)) == bucket.end()
NoAdjacentEqual(es) == \A i \in 1..(Len(es) - 1) : Cmp(es[i], es[i + 1])

\* Returns the vector and whether the releaseAssert held.
convertToBucketEntry(useInit, initEntries, liveEntries, deadEntries) ==
    LET bucket == SortEntries(TagInit(useInit, initEntries)
                              \o TagLive(liveEntries) \o TagDead(deadEntries))
    IN [bucket |-> bucket, asserted |-> NoAdjacentEqual(bucket)]

IdleFresh ==
    [pc |-> "idle", protocolVersion |-> 0, initEntries |-> <<>>,
     liveEntries |-> <<>>, deadEntries |-> <<>>, countMergeEvents |-> FALSE,
     entries |-> <<>>, pos |-> 1, out |-> NoOutput]

\* the call with its arguments, before its first statement
FreshCall(protocolVersion, initEntries, liveEntries, deadEntries, cme) ==
    [IdleFresh EXCEPT !.pc = "begin", !.protocolVersion = protocolVersion,
                      !.initEntries = initEntries, !.liveEntries = liveEntries,
                      !.deadEntries = deadEntries, !.countMergeEvents = cme]

\* Lines 413-423: useInit, convertToBucketEntry, the builder (which keeps
\* dead entries).
FreshBeginFrame(f) ==
    LET c == convertToBucketEntry(UseInit(f.protocolVersion), f.initEntries,
                                  f.liveEntries, f.deadEntries)
    IN IF ~c.asserted THEN [f EXCEPT !.pc = "abort"]
       ELSE [f EXCEPT !.pc = "put", !.entries = c.bucket,
                      !.out = OutputIterator(TRUE, f.protocolVersion)]

\* for (auto const& e : entries) out.put(e);
FreshPutFrame(f) ==
    LET o == put(f.out, f.entries[f.pos])
    IN IF o.failed THEN [f EXCEPT !.pc = "abort", !.out = o]
       ELSE [f EXCEPT !.out = o, !.pos = @ + 1]

\* the MergeKey of a bucket published without one
NoMergeKey == [keepDeadEntries |-> TRUE]

(***************************************************************************)
(* Bucket::scanForEviction.  A bucket is scanned as a record of            *)
(*   empty              isEmpty()                                          *)
(*   version            the ledgerVersion of its META                      *)
(*   file               its records, the META first, each with its type,   *)
(*                      its key, whether its payload is a temporary entry  *)
(*                      and its size in bytes                              *)
(* The ledger transaction holds for every key whether the entry exists and *)
(* the liveUntilLedgerSeq of its TTL entry (0: no TTL entry).              *)
(* The frame of one call is a record e:                                    *)
(*   pc                 "idle", "begin", "loop", "done" or "abort"         *)
(*   bucket, ltx, iter, bytesToScan, remainingEntriesToEvict, ledgerSeq,   *)
(*   entriesEvictedCounter, bytesScannedForEvictionCounter, metrics        *)
(*                      the bucket and the arguments                       *)
(*   streamPos          the position of the eviction stream                *)
(*   result             what the call returned                             *)
(*   read               the indices of the records readOne returned        *)
(*   eof                whether readOne has found end of file              *)
(*   erased             the calls of ltx.erase, in order                   *)
(*   entry              iter, the budgets and ltx as the call was entered  *)
(***************************************************************************)
MetaRecord == [type |-> METAENTRY, key |-> 0, temp |-> FALSE, size |-> 1]

EmptyScanBucket == [empty |-> TRUE, version |-> 0, file |-> <<>>]

\* the stream position at which the i-th record of the file starts
RECURSIVE OffsetOf(_, _)
OffsetOf(file, i) ==
    IF i <= 1 THEN 0 ELSE OffsetOf(file, i - 1) + file[i - 1].size

FileSize(file) == OffsetOf(file, Len(file) + 1)

\* stream.readOne(be) at position pos: the record that starts there, or
\* end of file
readOne(file, pos) ==
    IF \E i \in 1..Len(file) : OffsetOf(file, i) = pos
    THEN LET i == CHOOSE j \in 1..Len(file) : OffsetOf(file, j) = pos
         IN [ok |-> TRUE, index |-> i, be |-> file[i],
             pos |-> pos + file[i].size]
    ELSE [ok |-> FALSE, index |-> 0, be |-> MetaRecord, pos |-> pos]

NoLedgerEntry == [entry |-> FALSE, ttl |-> 0]

\* isLive(ttlEntry, ledgerSeq)
isLive(liveUntilLedgerSeq, ledgerSeq) == liveUntilLedgerSeq >= ledgerSeq

\* Mutant of Evictable: the test of isTemporaryEntry dropped.
Evictable_AnyEntry(be) == be.type = INITENTRY \/ be.type = LIVEENTRY

\* the two tests that lead to shouldEvict
Evictable(be) ==
    /\ (be.type = INITENTRY \/ be.type = LIVEENTRY)
    /\ be.temp

\* the releaseAsserts of shouldEvict: TRUE when one fails
ShouldEvictAborts(ltx, key) ==
    IF ~ltx[key].entry THEN ltx[key].ttl # 0 ELSE ltx[key].ttl = 0

\* the lambda shouldEvict
ShouldEvict(ltx, key, ledgerSeq) ==
    IF ~ltx[key].entry THEN FALSE
    ELSE ~isLive(ltx[key].ttl, ledgerSeq)

\* the body of if (shouldEvict()); remainingEntriesToEvict is not 0 here,
\* the call returns as soon as it is
Evict(e, key) ==
    [e EXCEPT !.metrics =
                  IF @.has_value
                  THEN [@ EXCEPT !.numEntriesEvicted = @ + 1,
                                 !.evictedEntriesAgeSum =
                                     @ + (e.ledgerSeq - e.ltx[key].ttl)]
                  ELSE @,
              !.ltx[key] = NoLedgerEntry,
              !.erased = @ \o <<[ttl |-> TRUE, key |-> key],
                                [ttl |-> FALSE, key |-> key]>>,
              !.entriesEvictedCounter = @ + 1,
              !.remainingEntriesToEvict = @ - 1]

\* Mutant of ZeroBudget: only the byte budget is tested on entry.
ZeroBudget_BytesOnly(e) == e.bytesToScan = 0

\* if (remainingEntriesToEvict == 0 || bytesToScan == 0)
ZeroBudget(e) == e.remainingEntriesToEvict = 0 \/ e.bytesToScan = 0

IdleScan ==
    [pc |-> "idle", bucket |-> EmptyScanBucket, ltx |-> <<>>,
     iter |-> [bucketFileOffset |-> 0], bytesToScan |-> 0,
     remainingEntriesToEvict |-> 0, ledgerSeq |-> 0,
     entriesEvictedCounter |-> 0, bytesScannedForEvictionCounter |-> 0,
     metrics |-> [has_value |-> FALSE, numEntriesEvicted |-> 0,
                  evictedEntriesAgeSum |-> 0],
     streamPos |-> 0, result |-> FALSE, read |-> <<>>, eof |-> FALSE,
     erased |-> <<>>,
     entry |-> [iter |-> [bucketFileOffset |-> 0], bytesToScan |-> 0,
                remainingEntriesToEvict |-> 0, ltx |-> <<>>]]

\* the call with its arguments, before its first statement
ScanCall(bucket, ltx, offset, bytesToScan, remaining, ledgerSeq, hasMetrics) ==
    [IdleScan EXCEPT !.pc = "begin", !.bucket = bucket, !.ltx = ltx,
                     !.iter = [bucketFileOffset |-> offset],
                     !.bytesToScan = bytesToScan,
                     !.remainingEntriesToEvict = remaining,
                     !.ledgerSeq = ledgerSeq,
                     !.metrics.has_value = hasMetrics,
                     !.entry = [iter |-> [bucketFileOffset |-> offset],
                                bytesToScan |-> bytesToScan,
                                remainingEntriesToEvict |-> remaining,
                                ltx |-> ltx]]

Return(e, result) == [e EXCEPT !.pc = "done", !.result = result]

\* Mutant of SeekTarget: the eviction stream is rewound to the start of the
\* file.
SeekTarget_Start(e) == 0

\* stream.seek(iter.bucketFileOffset)
SeekTarget(e) == e.iter.bucketFileOffset

\* Lines 866-881: the two early returns and the seek.
ScanBeginFrame(e) ==
    IF e.bucket.empty
       \/ protocolVersionIsBefore(e.bucket.version, SOROBAN_PROTOCOL_VERSION)
    THEN Return(e, FALSE)
    ELSE IF ZeroBudget(e) THEN Return(e, TRUE)
    ELSE [e EXCEPT !.pc = "loop", !.streamPos = SeekTarget(e)]

\* Mutant of OffsetAfter: the iterator is left where the call found it.
OffsetAfter_Kept(bucketFileOffset, newPos) == bucketFileOffset

\* iter.bucketFileOffset = newPos
OffsetAfter(bucketFileOffset, newPos) == newPos

\* Lines 930-946: the accounting after a record, r being what readOne
\* returned.
ScanAccount(e, r) ==
    LET newPos == r.pos
        bytesRead == newPos - e.iter.bucketFileOffset
        e1 == [e EXCEPT !.iter.bucketFileOffset = OffsetAfter(@, newPos),
                        !.bytesScannedForEvictionCounter = @ + bytesRead]
    IN IF bytesRead >= e.bytesToScan
       THEN Return([e1 EXCEPT !.bytesToScan = 0], TRUE)
       ELSE IF e.remainingEntriesToEvict = 0
       THEN Return(e1, TRUE)
       ELSE [e1 EXCEPT !.bytesToScan = @ - bytesRead]

\* One evaluation of while (stream.readOne(be)) and of the loop's body
\* (lines 884-946), or the return after the loop (949).
ScanLoopBody(e) ==
    LET r == readOne(e.bucket.file, e.streamPos)
    IN IF ~r.ok THEN Return([e EXCEPT !.eof = TRUE], FALSE)
       ELSE LET e1 == [e EXCEPT !.streamPos = r.pos,
                                !.read = Append(@, r.index)]
            IN IF ~Evictable(r.be) THEN ScanAccount(e1, r)
               ELSE IF ShouldEvictAborts(e.ltx, r.be.key)
               THEN [e1 EXCEPT !.pc = "abort"]
               ELSE IF ShouldEvict(e.ltx, r.be.key, e.ledgerSeq)
               THEN ScanAccount(Evict(e1, r.be.key), r)
               ELSE ScanAccount(e1, r)

\* The caller calls again with the iterator, the ledger transaction, the
\* counters and the cached eviction stream as the last call left them.
ScanResume(e, bytesToScan, remaining) ==
    [e EXCEPT !.pc = "begin", !.bytesToScan = bytesToScan,
              !.remainingEntriesToEvict = remaining,
              !.result = FALSE, !.eof = FALSE,
              !.entry = [iter |-> e.iter, bytesToScan |-> bytesToScan,
                         remainingEntriesToEvict |-> remaining,
                         ltx |-> e.ltx]]

\* Bucket::scanForEviction as a function: the frame when the call returns.
RECURSIVE ScanToReturn(_)
ScanToReturn(e) ==
    IF e.pc = "begin" THEN ScanToReturn(ScanBeginFrame(e))
    ELSE IF e.pc = "loop" THEN ScanToReturn(ScanLoopBody(e))
    ELSE e

\* what the caller keeps of a call that has returned
ScanLogEntry(e) ==
    [entry |-> e.entry, iter |-> e.iter, bytesToScan |-> e.bytesToScan,
     remainingEntriesToEvict |-> e.remainingEntriesToEvict,
     result |-> e.result, read |-> e.read]

(***************************************************************************)
(* The bucket handle: mFilename, mHash, mSize, mIndex and mIndexStream.    *)
(***************************************************************************)
NoIndex == 0

NoFile == ""

ZeroHash == 0

\* what the last operation on the handle did: whether it threw, and the
\* index or the truth value it returned
Outcome(op, threw, index, answer) ==
    [op |-> op, threw |-> threw, index |-> index, answer |-> answer]

\* Bucket::Bucket(filename, hash, index) and Bucket::Bucket()
Handle(filename, hash, size, index) ==
    [mFilename |-> filename, mHash |-> hash,
     mSize |-> IF filename = NoFile THEN 0 ELSE size,
     mIndex |-> index, mIndexStream |-> FALSE,
     last |-> Outcome("none", FALSE, NoIndex, FALSE)]

IdleHandle == Handle(NoFile, ZeroHash, 0, NoIndex)

\* Mutant of setIndex: an attached index is replaced.
setIndex_Overwrite(h, index) ==
    [h EXCEPT !.mIndex = index,
              !.last = Outcome("setIndex", FALSE, index, FALSE)]

\* Bucket::setIndex
setIndex(h, index) ==
    IF h.mIndex # NoIndex
    THEN [h EXCEPT !.last = Outcome("setIndex", TRUE, index, FALSE)]
    ELSE [h EXCEPT !.mIndex = index,
                   !.last = Outcome("setIndex", FALSE, index, FALSE)]

\* Bucket::freeIndex
freeIndex(h) ==
    [h EXCEPT !.mIndex = NoIndex, !.mIndexStream = FALSE,
              !.last = Outcome("freeIndex", FALSE, NoIndex, FALSE)]

\* Bucket::getIndex
getIndex(h) ==
    IF h.mFilename = NoFile \/ h.mIndex = NoIndex
    THEN [h EXCEPT !.last = Outcome("getIndex", TRUE, NoIndex, FALSE)]
    ELSE [h EXCEPT !.last = Outcome("getIndex", FALSE, h.mIndex, FALSE)]

\* Bucket::isIndexed
isIndexed(h) ==
    [h EXCEPT !.last = Outcome("isIndexed", FALSE, NoIndex, h.mIndex # NoIndex)]

\* Bucket::isEmpty
isEmpty(h) ==
    IF h.mFilename = NoFile \/ h.mHash = ZeroHash
    THEN IF ~(h.mFilename = NoFile /\ h.mHash = ZeroHash)
         THEN [h EXCEPT !.last = Outcome("isEmpty", TRUE, NoIndex, FALSE)]
         ELSE [h EXCEPT !.last = Outcome("isEmpty", FALSE, NoIndex, TRUE)]
    ELSE [h EXCEPT !.last = Outcome("isEmpty", FALSE, NoIndex, FALSE)]

\* Bucket::getIndexStream with Bucket::openStream
getIndexStream(h) ==
    IF h.mIndexStream
    THEN [h EXCEPT !.last = Outcome("getIndexStream", FALSE, NoIndex, FALSE)]
    ELSE IF h.mFilename = NoFile
    THEN [h EXCEPT !.last = Outcome("getIndexStream", TRUE, NoIndex, FALSE)]
    ELSE [h EXCEPT !.mIndexStream = TRUE,
                   !.last = Outcome("getIndexStream", FALSE, NoIndex, FALSE)]

(***************************************************************************)
(* The lookups: getBucketEntry, loadKeys and                               *)
(* loadPoolShareTrustLinessByAccount.                                      *)
(* A bucket is looked up as a record of its file (the META first, every    *)
(* record one byte long, with its type, key and value) and its index.  The *)
(* index holds                                                             *)
(*   pageSize           0: one entry per record; otherwise one entry per   *)
(*                      page of pageSize bytes                             *)
(*   entries            the entries in key order: the lowest and the       *)
(*                      highest key of the record or page and its offset   *)
(*   filter             the keys the bloom filter lets through             *)
(* The frame of a lookup is a record l:                                    *)
(*   pc                 "idle", "lookup", "read", "call", "loop", "done"   *)
(*                      or "error"                                         *)
(*   levels, level      the buckets the caller goes through, newest first, *)
(*                      and the one being called                           *)
(*   k, pos, returned   the key of a point lookup, the offset the index    *)
(*                      gave and the entry returned                        *)
(*   bloomMisses        the calls of markBloomMiss                         *)
(*   keys, result       the arguments of loadKeys; keys0 and result0 as    *)
(*                      the caller first passed them                       *)
(*   cur, indexIter     currKeyIt and indexIter of loadKeys                *)
(*   seen, byPool, poolKeys   the arguments of                             *)
(*                      loadPoolShareTrustLinessByAccount                  *)
(*   range, streamPos   searchRange and the position of the index stream   *)
(***************************************************************************)
LookupRecord(t, k, v) == [type |-> t, key |-> k, val |-> v, size |-> 1]

LookupMeta == LookupRecord(METAENTRY, 0, 0)

\* std::nullopt for an entry
NoRecord == [type |-> "none", key |-> 0, val |-> 0, size |-> 0]

\* std::nullopt for an offset
NoOffset == -1

\* be.liveEntry()
liveEntry(be) == [key |-> be.key, val |-> be.val]

Min(a, b) == IF a < b THEN a ELSE b

\* the index with one entry per record
IndividualEntries(file) ==
    [i \in 1..(Len(file) - 1) |->
        [lo |-> file[i + 1].key, hi |-> file[i + 1].key,
         offset |-> OffsetOf(file, i + 1)]]

\* the index with one entry per page of pageSize records after the META
RangeEntries(file, pageSize) ==
    [j \in 1..((Len(file) - 1 + pageSize - 1) \div pageSize) |->
        LET first == 2 + (j - 1) * pageSize
            last == Min(1 + j * pageSize, Len(file))
        IN [lo |-> file[first].key, hi |-> file[last].key,
            offset |-> OffsetOf(file, first)]]

BucketIndex(file, pageSize, filter) ==
    [pageSize |-> pageSize,
     entries |-> IF pageSize = 0 THEN IndividualEntries(file)
                 ELSE RangeEntries(file, pageSize),
     filter |-> filter]

\* index.lookup(k)
IndexLookup(index, k) ==
    LET hits == {j \in 1..Len(index.entries) :
                   index.entries[j].lo <= k /\ k <= index.entries[j].hi}
    IN IF k \notin index.filter \/ hits = {} THEN NoOffset
       ELSE index.entries[CHOOSE j \in hits : TRUE].offset

\* index.begin() and index.end()
IndexBegin(index) == 1

IndexEnd(index) == Len(index.entries) + 1

\* index.scan(iter, k): the cursor moves forward to the first entry that
\* does not end before k
IndexScan(index, iter, k) ==
    IF k \notin index.filter THEN [offset |-> NoOffset, iter |-> iter]
    ELSE LET at == CHOOSE j \in iter..IndexEnd(index) :
                     /\ j = IndexEnd(index) \/ index.entries[j].hi >= k
                     /\ \A i \in iter..(j - 1) : index.entries[i].hi < k
         IN IF at # IndexEnd(index) /\ index.entries[at].lo <= k
            THEN [offset |-> index.entries[at].offset, iter |-> at]
            ELSE [offset |-> NoOffset, iter |-> at]

\* stream.readPage(be, k, pageSize) at position pos
readPage(file, pos, k, pageSize) ==
    LET hits == {i \in 1..Len(file) :
                   /\ pos <= OffsetOf(file, i)
                   /\ OffsetOf(file, i) < pos + pageSize
                   /\ file[i].key = k}
    IN IF hits = {} THEN [ok |-> FALSE, be |-> NoRecord]
       ELSE [ok |-> TRUE, be |-> file[CHOOSE i \in hits : TRUE]]

\* Mutant of getEntryAtOffset: a read that finds nothing is not marked.
getEntryAtOffset_NoMark(b, k, pos, pageSize) ==
    IF pageSize = 0
    THEN IF readOne(b.file, pos).ok
         THEN [entry |-> readOne(b.file, pos).be, miss |-> FALSE]
         ELSE [entry |-> NoRecord, miss |-> FALSE]
    ELSE IF readPage(b.file, pos, k, pageSize).ok
         THEN [entry |-> readPage(b.file, pos, k, pageSize).be, miss |-> FALSE]
         ELSE [entry |-> NoRecord, miss |-> FALSE]

\* Bucket::getEntryAtOffset: the entry returned and whether markBloomMiss
\* was called
getEntryAtOffset(b, k, pos, pageSize) ==
    IF pageSize = 0
    THEN IF readOne(b.file, pos).ok
         THEN [entry |-> readOne(b.file, pos).be, miss |-> FALSE]
         ELSE [entry |-> NoRecord, miss |-> TRUE]
    ELSE IF readPage(b.file, pos, k, pageSize).ok
         THEN [entry |-> readPage(b.file, pos, k, pageSize).be, miss |-> FALSE]
         ELSE [entry |-> NoRecord, miss |-> TRUE]

NoRange == [first |-> NoOffset, second |-> NoOffset]

IdleLookup ==
    [pc |-> "idle", op |-> "none", levels |-> <<>>, level |-> 1,
     k |-> 0, pos |-> NoOffset, returned |-> NoRecord, bloomMisses |-> 0,
     keys |-> {}, keys0 |-> {}, result |-> <<>>, result0 |-> <<>>,
     cur |-> 0, indexIter |-> 1,
     seen |-> {}, byPool |-> {}, poolKeys |-> {},
     range |-> NoRange, streamPos |-> 0]

\* getBucketEntry(k) on bucket b, before its first statement
PointCall(b, k) ==
    [IdleLookup EXCEPT !.pc = "lookup", !.op = "getBucketEntry",
                       !.levels = <<b>>, !.k = k]

\* Bucket::getBucketEntry up to the test of pos.has_value()
PointLookupFrame(l) ==
    LET pos == IndexLookup(l.levels[l.level].index, l.k)
    IN IF pos # NoOffset THEN [l EXCEPT !.pc = "read", !.pos = pos]
       ELSE [l EXCEPT !.pc = "done", !.returned = NoRecord]

\* return getEntryAtOffset(k, pos.value(), getIndex().getPageSize())
PointReadFrame(l) ==
    LET b == l.levels[l.level]
        r == getEntryAtOffset(b, l.k, l.pos, b.index.pageSize)
    IN [l EXCEPT !.pc = "done", !.returned = r.entry,
                 !.bloomMisses = IF r.miss THEN @ + 1 ELSE @]

(***************************************************************************)
(* State.                                                                  *)
(*   oldBucket, newBucket, shadows, maxProtocolVersion, keepDeadEntries,   *)
(*   countMergeEvents      the arguments of the call of Bucket::merge      *)
(*   mg                    the frame of the call                           *)
(*   bm                    the BucketManager: its shutdown flag, the       *)
(*                         number of calls of incrMergeCounters, the       *)
(*                         buckets handed to it by getBucket and the       *)
(*                         merge keys handed with them                     *)
(*   bucketList            a list of buckets, newest first                 *)
(*   lookup0               what a reader of the list found for every key   *)
(*                         when the list was first formed                  *)
(*   fr                    the frame of a call of Bucket::fresh            *)
(*   ev                    the frame of a call of Bucket::scanForEviction  *)
(*   evlog                 what the caller of scanForEviction saw of the   *)
(*                         calls that have returned before the present one *)
(*   lk                    the frame of a call of one of the lookups       *)
(*   hd                    a bucket handle                                 *)
(***************************************************************************)
VARIABLES oldBucket, newBucket, shadows, maxProtocolVersion, keepDeadEntries,
          countMergeEvents, mg, bm, bucketList, lookup0, fr, ev, evlog, lk, hd

vars == <<oldBucket, newBucket, shadows, maxProtocolVersion, keepDeadEntries,
          countMergeEvents, mg, bm, bucketList, lookup0, fr, ev, evlog, lk, hd>>

list == <<bucketList, lookup0>>

lookups == <<lk, hd>>

scans == <<ev, evlog>>

calls == <<fr, scans, lookups>>

args == <<oldBucket, newBucket, shadows, maxProtocolVersion, keepDeadEntries,
          countMergeEvents>>

EmptyBucket == MkBucket(0, <<>>)

\* the frame before the call has begun
IdleFrame ==
    [pc |-> "begin", oi |-> InputIterator(EmptyBucket),
     ni |-> InputIterator(EmptyBucket), shadowIterators |-> <<>>,
     protocolVersion |-> 0, keepShadowedLifecycleEntries |-> FALSE,
     mc |-> ZeroCounters, out |-> NoOutput, iter |-> 0,
     threw |-> NoError]

\* the entries of the shadows of the model: maybePut reads only their keys
ShadowEntrySeqs ==
    {SeqOfChoice([k \in Keys |-> IF k \in S THEN LiveEntry(k, 1) ELSE None],
                 1, MaxKey) : S \in SUBSET Keys}

BucketLists(bs, n) == UNION {[1..k -> bs] : k \in 0..n}

\* the protocols on either side of the cut-over to INITENTRY
CutoverVersions ==
    (FIRST_PROTOCOL_SUPPORTING_INITENTRY_AND_METAENTRY - 1)
        ..FIRST_PROTOCOL_SUPPORTING_INITENTRY_AND_METAENTRY

\* Spec: merges of all buckets over Keys and Vals on either side of the
\* cut-over, under shadows of the old protocol.
Init ==
    /\ oldBucket \in {MkBucket(v, es) :
                        v \in CutoverVersions, es \in SortedEntrySeqs(MaxKey, Vals)}
    /\ newBucket \in {MkBucket(v, es) :
                        v \in CutoverVersions, es \in SortedEntrySeqs(MaxKey, Vals)}
    /\ shadows \in BucketLists(
                     {MkBucket(FIRST_PROTOCOL_SUPPORTING_INITENTRY_AND_METAENTRY - 1, es) :
                        es \in ShadowEntrySeqs}, MaxShadows)
    /\ maxProtocolVersion = MaxVersion
    /\ keepDeadEntries \in BOOLEAN
    /\ countMergeEvents = TRUE
    /\ mg = IdleFrame
    /\ evlog = <<>>
    /\ lk = IdleLookup
    /\ hd = IdleHandle
    /\ fr = IdleFresh
    /\ ev = IdleScan
    /\ bm = [isShutdown |-> FALSE, incrMergeCounters |-> 0, adopted |-> <<>>,
            mergeKeys |-> <<>>]
    /\ bucketList = <<>>
    /\ lookup0 = <<>>

\* Bucket::merge up to the loop.
MergeBegin ==
    /\ mg.pc = "begin"
    /\ mg' = MergeBeginFrame(oldBucket, newBucket, shadows, keepDeadEntries,
                             maxProtocolVersion)
    /\ UNCHANGED <<args, bm, list, calls>>

\* One iteration of the loop.
MergeIterate ==
    /\ mg.pc = "loop"
    /\ MergeLoopGuard(mg)
    /\ mg' = MergeLoopBody(mg, bm.isShutdown)
    /\ UNCHANGED <<args, bm, list, calls>>

\* MergeKey mk{keepDeadEntries, oldBucket, newBucket, shadows}
MergeKey(keepDead, old, new, shs) ==
    [keepDeadEntries |-> keepDead, oldBucket |-> old, newBucket |-> new,
     shadows |-> shs]

\* After the loop: incrMergeCounters and getBucket (lines 1014-1020).
MergeFinish ==
    /\ mg.pc = "loop"
    /\ ~MergeLoopGuard(mg)
    /\ mg' = [mg EXCEPT !.pc = "done"]
    /\ bm' = [bm EXCEPT !.incrMergeCounters =
                            IF countMergeEvents THEN @ + 1 ELSE @,
                        !.adopted = Append(@, getBucket(mg.out)),
                        !.mergeKeys =
                            Append(@, MergeKey(keepDeadEntries, oldBucket,
                                               newBucket, shadows))]
    /\ UNCHANGED <<args, list, calls>>

Next == MergeBegin \/ MergeIterate \/ MergeFinish

Spec == Init /\ [][Next]_vars

\* SpecVersions: merges of the buckets over one key, of every protocol
\* version, under up to MaxVersionShadows shadows of every protocol version,
\* against both a ceiling that admits every version and one that does not.
InitVersions ==
    /\ oldBucket \in {MkBucket(v, es) :
                        v \in Versions, es \in SortedEntrySeqs(1, {1})}
    /\ newBucket \in {MkBucket(v, es) :
                        v \in Versions, es \in SortedEntrySeqs(1, {1})}
    /\ shadows \in BucketLists(
                     {MkBucket(v, es) :
                        v \in Versions, es \in {<<>>, <<LiveEntry(1, 1)>>}},
                     MaxVersionShadows)
    /\ maxProtocolVersion \in {MaxVersion - 1, MaxVersion}
    /\ keepDeadEntries \in BOOLEAN
    /\ countMergeEvents \in BOOLEAN
    /\ mg = IdleFrame
    /\ evlog = <<>>
    /\ lk = IdleLookup
    /\ hd = IdleHandle
    /\ fr = IdleFresh
    /\ ev = IdleScan
    /\ bm = [isShutdown |-> FALSE, incrMergeCounters |-> 0, adopted |-> <<>>,
            mergeKeys |-> <<>>]
    /\ bucketList = <<>>
    /\ lookup0 = <<>>

SpecVersions == InitVersions /\ [][Next]_vars

\* The manager is shut down, at any moment of a merge.
Shutdown ==
    /\ ~bm.isShutdown
    /\ bm' = [bm EXCEPT !.isShutdown = TRUE]
    /\ UNCHANGED <<args, mg, list, calls>>

\* n LIVE entries of keys lo, lo + 1, ...
LongEntries(lo, n) == [i \in 1..n |-> LiveEntry(lo + i - 1, 1)]

\* SpecCommit: merges under a manager that may shut down.  The short merges
\* are of buckets over one key, of every protocol version, under at most
\* MaxShadows shadows, against either ceiling; the long ones are of a bucket
\* of LongLen entries with the empty bucket, with a bucket of the same keys
\* and with a bucket of LongLen further keys, so that the loop reaches its
\* poll of the shutdown flag once or twice.
InitCommit ==
    /\ \/ /\ oldBucket \in {MkBucket(v, es) :
                                v \in Versions, es \in SortedEntrySeqs(1, {1})}
          /\ newBucket \in {MkBucket(v, es) :
                                v \in Versions, es \in SortedEntrySeqs(1, {1})}
          /\ shadows \in BucketLists(
                            {MkBucket(v, <<LiveEntry(1, 1)>>) : v \in Versions},
                            MaxShadows)
          /\ maxProtocolVersion \in {MaxVersion - 1, MaxVersion}
       \/ /\ oldBucket = MkBucket(MaxVersion - 1, LongEntries(1, LongLen))
          /\ newBucket \in {MkBucket(MaxVersion - 1, es) :
                                es \in {<<>>, LongEntries(1, LongLen),
                                        LongEntries(LongLen + 1, LongLen)}}
          /\ shadows = <<>>
          /\ maxProtocolVersion = MaxVersion
    /\ keepDeadEntries \in BOOLEAN
    /\ countMergeEvents \in BOOLEAN
    /\ mg = IdleFrame
    /\ evlog = <<>>
    /\ lk = IdleLookup
    /\ hd = IdleHandle
    /\ fr = IdleFresh
    /\ ev = IdleScan
    /\ bm = [isShutdown |-> FALSE, incrMergeCounters |-> 0, adopted |-> <<>>,
            mergeKeys |-> <<>>]
    /\ bucketList = <<>>
    /\ lookup0 = <<>>

NextCommit == MergeBegin \/ MergeIterate \/ MergeFinish \/ Shutdown

SpecCommit == InitCommit /\ [][NextCommit]_vars

\* SpecShadows: merges of all buckets over Keys on either side of the
\* cut-over, under up to MaxVersionShadows shadows of the old protocol.
InitShadows ==
    /\ oldBucket \in {MkBucket(v, es) :
                        v \in CutoverVersions, es \in SortedEntrySeqs(MaxKey, {1})}
    /\ newBucket \in {MkBucket(v, es) :
                        v \in CutoverVersions, es \in SortedEntrySeqs(MaxKey, {1})}
    /\ shadows \in BucketLists(
                     {MkBucket(FIRST_PROTOCOL_SUPPORTING_INITENTRY_AND_METAENTRY - 1, es) :
                        es \in ShadowEntrySeqs}, MaxVersionShadows)
    /\ maxProtocolVersion = MaxVersion
    /\ keepDeadEntries = TRUE
    /\ countMergeEvents = TRUE
    /\ mg = IdleFrame
    /\ evlog = <<>>
    /\ lk = IdleLookup
    /\ hd = IdleHandle
    /\ fr = IdleFresh
    /\ ev = IdleScan
    /\ bm = [isShutdown |-> FALSE, incrMergeCounters |-> 0, adopted |-> <<>>,
            mergeKeys |-> <<>>]
    /\ bucketList = <<>>
    /\ lookup0 = <<>>

SpecShadows == InitShadows /\ [][Next]_vars

\* a bucket of a protocol before INITENTRY holds no INITENTRY
WellFormed(b) ==
    protocolVersionIsBefore(b.version,
                            FIRST_PROTOCOL_SUPPORTING_INITENTRY_AND_METAENTRY) =>
        \A i \in 1..Len(b.entries) : b.entries[i].type # INITENTRY

\* the buckets without entries: the empty bucket, and a bucket of a META only
NoEntryBuckets == {EmptyBucket} \cup {MkBucket(v, <<>>) : v \in Versions}

\* SpecIdempotent: merges without shadows of a well-formed bucket over Keys
\* and Vals, of every protocol version, with a bucket without entries on
\* either side.
InitIdempotent ==
    /\ \E b \in {c \in {MkBucket(v, es) :
                             v \in Versions, es \in SortedEntrySeqs(MaxKey, Vals)} :
                      WellFormed(c)} :
       \E e \in NoEntryBuckets :
          \/ oldBucket = b /\ newBucket = e
          \/ oldBucket = e /\ newBucket = b
    /\ shadows = <<>>
    /\ maxProtocolVersion = MaxVersion
    /\ keepDeadEntries \in BOOLEAN
    /\ countMergeEvents = TRUE
    /\ mg = IdleFrame
    /\ evlog = <<>>
    /\ lk = IdleLookup
    /\ hd = IdleHandle
    /\ fr = IdleFresh
    /\ ev = IdleScan
    /\ bm = [isShutdown |-> FALSE, incrMergeCounters |-> 0, adopted |-> <<>>,
            mergeKeys |-> <<>>]
    /\ bucketList = <<>>
    /\ lookup0 = <<>>

SpecIdempotent == InitIdempotent /\ [][Next]_vars

\* Bucket::merge is called again once a call has ended: with the same old
\* bucket, new bucket, shadows and keepDeadEntries or with the old and the
\* new bucket exchanged, and with any maxProtocolVersion and
\* countMergeEvents.
MergeAgain ==
    /\ mg.pc \in {"done", "error"}
    /\ Len(bm.adopted) < MaxMerges
    /\ \/ UNCHANGED <<oldBucket, newBucket>>
       \/ oldBucket' = newBucket /\ newBucket' = oldBucket
    /\ maxProtocolVersion' \in {MaxVersion - 1, MaxVersion}
    /\ countMergeEvents' \in BOOLEAN
    /\ mg' = IdleFrame
    /\ UNCHANGED <<shadows, keepDeadEntries, bm, list, calls>>

\* SpecTwice: up to MaxMerges merges one after the other, of buckets over
\* one key of every protocol version, under at most MaxShadows shadows.
InitTwice ==
    /\ oldBucket \in {MkBucket(v, es) :
                        v \in Versions, es \in SortedEntrySeqs(1, {1})}
    /\ newBucket \in {MkBucket(v, es) :
                        v \in Versions, es \in SortedEntrySeqs(1, {1})}
    /\ shadows \in BucketLists(
                     {MkBucket(v, <<LiveEntry(1, 1)>>) : v \in CutoverVersions},
                     MaxShadows)
    /\ maxProtocolVersion = MaxVersion
    /\ keepDeadEntries \in BOOLEAN
    /\ countMergeEvents = TRUE
    /\ mg = IdleFrame
    /\ evlog = <<>>
    /\ lk = IdleLookup
    /\ hd = IdleHandle
    /\ fr = IdleFresh
    /\ ev = IdleScan
    /\ bm = [isShutdown |-> FALSE, incrMergeCounters |-> 0, adopted |-> <<>>,
            mergeKeys |-> <<>>]
    /\ bucketList = <<>>
    /\ lookup0 = <<>>

NextTwice == MergeBegin \/ MergeIterate \/ MergeFinish \/ MergeAgain

SpecTwice == InitTwice /\ [][NextTwice]_vars

(***************************************************************************)
(* Calls of Bucket::fresh.                                                 *)
(***************************************************************************)
FreshBegin ==
    /\ fr.pc = "begin"
    /\ fr' = FreshBeginFrame(fr)
    /\ UNCHANGED <<args, mg, bm, list, scans, lookups>>

FreshPut ==
    /\ fr.pc = "put"
    /\ fr.pos <= Len(fr.entries)
    /\ fr' = FreshPutFrame(fr)
    /\ UNCHANGED <<args, mg, bm, list, scans, lookups>>

\* Lines 429-435: incrMergeCounters and getBucket, without a MergeKey.
FreshFinish ==
    /\ fr.pc = "put"
    /\ fr.pos > Len(fr.entries)
    /\ fr' = [fr EXCEPT !.pc = "done"]
    /\ bm' = [bm EXCEPT !.incrMergeCounters =
                            IF fr.countMergeEvents THEN @ + 1 ELSE @,
                        !.adopted = Append(@, getBucket(fr.out)),
                        !.mergeKeys = Append(@, NoMergeKey)]
    /\ UNCHANGED <<args, mg, list, scans, lookups>>

\* the vectors of at most FreshLen ledger entries of keys 1..FreshKeys and
\* value v, in any order and with repetitions
FreshEntryVectors(v) ==
    UNION {[1..n -> {[key |-> k, val |-> v] : k \in 1..FreshKeys}] :
             n \in 0..FreshLen}

FreshKeyVectors == UNION {[1..n -> 1..FreshKeys] : n \in 0..FreshLen}

\* SpecFresh: calls of Bucket::fresh at the protocols on either side of the
\* cut-over to INITENTRY, with every three vectors; the init entries carry
\* the value 1 and the live ones the value 2.
InitFresh ==
    /\ fr \in {FreshCall(v, ie, le, de, cme) :
                  v \in CutoverVersions, ie \in FreshEntryVectors(1),
                  le \in FreshEntryVectors(2), de \in FreshKeyVectors,
                  cme \in BOOLEAN}
    /\ ev = IdleScan
    /\ oldBucket = EmptyBucket
    /\ newBucket = EmptyBucket
    /\ shadows = <<>>
    /\ maxProtocolVersion = MaxVersion
    /\ keepDeadEntries = TRUE
    /\ countMergeEvents = TRUE
    /\ mg = IdleFrame
    /\ evlog = <<>>
    /\ lk = IdleLookup
    /\ hd = IdleHandle
    /\ bm = [isShutdown |-> FALSE, incrMergeCounters |-> 0, adopted |-> <<>>,
            mergeKeys |-> <<>>]
    /\ bucketList = <<>>
    /\ lookup0 = <<>>

NextFresh == FreshBegin \/ FreshPut \/ FreshFinish

SpecFresh == InitFresh /\ [][NextFresh]_vars

(***************************************************************************)
(* Calls of Bucket::scanForEviction.                                       *)
(***************************************************************************)
ScanBegin ==
    /\ ev.pc = "begin"
    /\ ev' = ScanBeginFrame(ev)
    /\ UNCHANGED <<args, mg, bm, list, fr, evlog, lookups>>

ScanRead ==
    /\ ev.pc = "loop"
    /\ ev' = ScanLoopBody(ev)
    /\ UNCHANGED <<args, mg, bm, list, fr, evlog, lookups>>

\* what a scanned bucket may hold for key k
ScanRecordsFor(k) ==
    {[type |-> t, key |-> k, temp |-> tm, size |-> sz] :
        t \in {INITENTRY, LIVEENTRY}, tm \in BOOLEAN, sz \in 1..MaxRecBytes}
    \cup {[type |-> DEADENTRY, key |-> k, temp |-> FALSE, size |-> sz] :
            sz \in 1..MaxRecBytes}

\* the files: a META and records of strictly ascending keys
ScanFiles ==
    LET Choice == [1..ScanKeys ->
                      UNION {ScanRecordsFor(k) : k \in 1..ScanKeys} \cup {None}]
    IN {<<MetaRecord>> \o SeqOfChoice(f, 1, ScanKeys) :
          f \in {g \in Choice :
                   \A k \in 1..ScanKeys : g[k] = None \/ g[k].key = k}}

ScanBuckets ==
    {EmptyScanBucket}
    \cup {[empty |-> FALSE, version |-> v, file |-> f] :
            v \in (SOROBAN_PROTOCOL_VERSION - 1)..SOROBAN_PROTOCOL_VERSION,
            f \in ScanFiles}

\* the ledger states: an entry exists if and only if its TTL entry does
LedgerTxns ==
    [1..ScanKeys ->
        {NoLedgerEntry} \cup {[entry |-> TRUE, ttl |-> t] : t \in 1..MaxLiveUntil}]

\* the offsets an eviction iterator may hold: the starts of the records and
\* the end of the file
Boundaries(file) == {OffsetOf(file, i) : i \in 1..(Len(file) + 1)}

\* SpecScan: one call of scanForEviction on every bucket, from every record
\* boundary, with every ledger state and every pair of budgets.
InitScan ==
    /\ \E b \in ScanBuckets, ltx \in LedgerTxns, bytes \in 0..MaxBytes,
          remaining \in 0..MaxEvict, hasMetrics \in BOOLEAN :
       \E offset \in Boundaries(b.file) :
          ev = ScanCall(b, ltx, offset, bytes, remaining, MaxLiveUntil,
                        hasMetrics)
    /\ fr = IdleFresh
    /\ oldBucket = EmptyBucket
    /\ newBucket = EmptyBucket
    /\ shadows = <<>>
    /\ maxProtocolVersion = MaxVersion
    /\ keepDeadEntries = TRUE
    /\ countMergeEvents = TRUE
    /\ mg = IdleFrame
    /\ evlog = <<>>
    /\ lk = IdleLookup
    /\ hd = IdleHandle
    /\ bm = [isShutdown |-> FALSE, incrMergeCounters |-> 0, adopted |-> <<>>,
            mergeKeys |-> <<>>]
    /\ bucketList = <<>>
    /\ lookup0 = <<>>

NextScan == ScanBegin \/ ScanRead

SpecScan == InitScan /\ [][NextScan]_vars

\* The caller calls again on the same bucket with the same iterator: with
\* any byte budget, and with the entry budget the last call left or a new
\* one.
ScanAgain ==
    /\ ev.pc = "done"
    /\ Len(evlog) + 1 < MaxCalls
    /\ \E bytes \in 0..MaxBytes,
          remaining \in {ev.remainingEntriesToEvict, MaxEvict} :
          ev' = ScanResume(ev, bytes, remaining)
    /\ evlog' = Append(evlog, ScanLogEntry(ev))
    /\ UNCHANGED <<args, mg, bm, list, fr, lookups>>

\* the buckets a scan reads: those of SOROBAN_PROTOCOL_VERSION
ResumeBuckets ==
    {[empty |-> FALSE, version |-> SOROBAN_PROTOCOL_VERSION, file |-> f] :
        f \in ScanFiles}

\* SpecResume: up to MaxCalls calls of scanForEviction on one bucket with
\* one iterator.
InitResume ==
    /\ \E b \in ResumeBuckets, ltx \in LedgerTxns, bytes \in 0..MaxBytes,
          remaining \in 0..MaxEvict :
       \E offset \in Boundaries(b.file) :
          ev = ScanCall(b, ltx, offset, bytes, remaining, MaxLiveUntil, FALSE)
    /\ evlog = <<>>
    /\ lk = IdleLookup
    /\ hd = IdleHandle
    /\ fr = IdleFresh
    /\ oldBucket = EmptyBucket
    /\ newBucket = EmptyBucket
    /\ shadows = <<>>
    /\ maxProtocolVersion = MaxVersion
    /\ keepDeadEntries = TRUE
    /\ countMergeEvents = TRUE
    /\ mg = IdleFrame
    /\ bm = [isShutdown |-> FALSE, incrMergeCounters |-> 0, adopted |-> <<>>,
            mergeKeys |-> <<>>]
    /\ bucketList = <<>>
    /\ lookup0 = <<>>

NextResume == ScanBegin \/ ScanRead \/ ScanAgain

SpecResume == InitResume /\ [][NextResume]_vars

\* the end of the std::set of wanted keys
KeyEnd == MaxLookupKey + 1

\* the cursor of std::set after c: the least key above c, or the end
NextKey(keys, c) ==
    IF \E k \in keys : k > c
    THEN CHOOSE k \in keys : k > c /\ \A j \in keys : j > c => k <= j
    ELSE KeyEnd

\* the caller's loop over the buckets: the next one is called, if any
NextLevel(l) ==
    IF l.level < Len(l.levels)
    THEN [l EXCEPT !.pc = "call", !.level = @ + 1]
    ELSE [l EXCEPT !.pc = "done"]

\* loadKeys(keys, result) on the newest of the buckets
LoadKeysCall(levels, keys, result) ==
    [IdleLookup EXCEPT !.pc = "call", !.op = "loadKeys", !.levels = levels,
                       !.keys = keys, !.keys0 = keys,
                       !.result = result, !.result0 = result]

\* Bucket::loadKeys up to the loop
LoadKeysBeginFrame(l) ==
    [l EXCEPT !.pc = "loop", !.cur = NextKey(l.keys, 0),
              !.indexIter = IndexBegin(l.levels[l.level].index)]

\* currKeyIt != keys.end() && indexIter != index.end()
LoadKeysGuard(l) ==
    /\ l.cur # KeyEnd
    /\ l.indexIter # IndexEnd(l.levels[l.level].index)

\* Mutant of KeysAfterFound: a key found DEAD stays wanted.
KeysAfterFound_LiveOnly(keys, k, be) ==
    IF be.type = DEADENTRY THEN keys ELSE keys \ {k}

\* keys.erase(currKeyIt) once an entry was found
KeysAfterFound(keys, k, be) == keys \ {k}

\* one iteration of the loop of Bucket::loadKeys
LoadKeysLoopBody(l) ==
    LET b == l.levels[l.level]
        s == IndexScan(b.index, l.indexIter, l.cur)
        l1 == [l EXCEPT !.indexIter = s.iter]
        r == getEntryAtOffset(b, l.cur, s.offset, b.index.pageSize)
        l2 == [l1 EXCEPT !.bloomMisses = IF r.miss THEN @ + 1 ELSE @]
    IN IF s.offset = NoOffset THEN [l1 EXCEPT !.cur = NextKey(l.keys, l.cur)]
       ELSE IF r.entry = NoRecord
            THEN [l2 EXCEPT !.cur = NextKey(l.keys, l.cur)]
            ELSE [l2 EXCEPT
                    !.result = IF r.entry.type # DEADENTRY
                               THEN Append(@, liveEntry(r.entry)) ELSE @,
                    !.keys = KeysAfterFound(@, l.cur, r.entry),
                    !.cur = NextKey(l.keys, l.cur)]

\* The keys of a pool-share scan are the trustlines of the account: the
\* lowest is of another asset, the others are pool shares.
PoolShareKeys == 2..MaxLookupKey

\* the lambda trustlineCheck, on a key or on the data of an entry
trustlineCheck(key) == key \in PoolShareKeys

\* index.getPoolshareTrustlineRange(accountID): from the first trustline of
\* the account to the end of the last
getPoolshareTrustlineRange(b) ==
    IF Len(b.file) > 1
    THEN [first |-> OffsetOf(b.file, 2), second |-> FileSize(b.file)]
    ELSE NoRange

\* the LedgerKey of the liquidity pool of a pool-share trustline
PoolKey(entry) == [liquidityPoolID |-> entry.key]

\* std::unordered_map::emplace: no effect if the key is there
Emplace(byPool, key, entry) ==
    IF \E p \in byPool : p.key = key THEN byPool
    ELSE byPool \cup {[key |-> key, entry |-> entry]}

\* loadPoolShareTrustLinessByAccount on the newest of the buckets
PoolCall(levels) ==
    [IdleLookup EXCEPT !.pc = "call",
                       !.op = "loadPoolShareTrustLinessByAccount",
                       !.levels = levels]

\* Bucket::loadPoolShareTrustLinessByAccount up to the loop
PoolBeginFrame(l) ==
    LET searchRange == getPoolshareTrustlineRange(l.levels[l.level])
    IN IF searchRange = NoRange THEN NextLevel(l)
       ELSE [l EXCEPT !.pc = "loop", !.range = searchRange,
                      !.streamPos = searchRange.first]

\* stream && stream.pos() < searchRange->second && stream.readOne(be)
PoolGuard(l) ==
    /\ l.streamPos < l.range.second
    /\ readOne(l.levels[l.level].file, l.streamPos).ok

\* Mutant of Unseen: every trustline passes for the newest of its key.
Unseen_Always(seen, key) == TRUE

\* seenTrustlines.find(LedgerEntryKey(entry)) == seenTrustlines.end()
Unseen(seen, key) == key \notin seen

\* one iteration of the loop of Bucket::loadPoolShareTrustLinessByAccount
PoolLoopBody(l) ==
    LET r == readOne(l.levels[l.level].file, l.streamPos)
        be == r.be
        l1 == [l EXCEPT !.streamPos = r.pos]
        entry == liveEntry(be)
    IN IF be.type = DEADENTRY
       THEN [l1 EXCEPT !.seen = IF trustlineCheck(be.key)
                                THEN @ \cup {be.key} ELSE @]
       ELSE IF be.type \notin {LIVEENTRY, INITENTRY}
            THEN [l1 EXCEPT !.pc = "error"]
            ELSE IF trustlineCheck(entry.key) /\ Unseen(l.seen, entry.key)
                 THEN [l1 EXCEPT
                         !.seen = @ \cup {entry.key},
                         !.byPool = Emplace(@, PoolKey(entry), entry),
                         !.poolKeys = @ \cup {PoolKey(entry)}]
                 ELSE l1

(***************************************************************************)
(* Calls of the lookups.                                                   *)
(***************************************************************************)
PointLookup ==
    /\ lk.pc = "lookup"
    /\ lk' = PointLookupFrame(lk)
    /\ UNCHANGED <<args, mg, bm, list, fr, scans, hd>>

PointRead ==
    /\ lk.pc = "read"
    /\ lk' = PointReadFrame(lk)
    /\ UNCHANGED <<args, mg, bm, list, fr, scans, hd>>

LoadKeysBegin ==
    /\ lk.op = "loadKeys"
    /\ lk.pc = "call"
    /\ lk' = LoadKeysBeginFrame(lk)
    /\ UNCHANGED <<args, mg, bm, list, fr, scans, hd>>

LoadKeysIterate ==
    /\ lk.op = "loadKeys"
    /\ lk.pc = "loop"
    /\ LoadKeysGuard(lk)
    /\ lk' = LoadKeysLoopBody(lk)
    /\ UNCHANGED <<args, mg, bm, list, fr, scans, hd>>

LoadKeysReturn ==
    /\ lk.op = "loadKeys"
    /\ lk.pc = "loop"
    /\ ~LoadKeysGuard(lk)
    /\ lk' = NextLevel(lk)
    /\ UNCHANGED <<args, mg, bm, list, fr, scans, hd>>

PoolBegin ==
    /\ lk.op = "loadPoolShareTrustLinessByAccount"
    /\ lk.pc = "call"
    /\ lk' = PoolBeginFrame(lk)
    /\ UNCHANGED <<args, mg, bm, list, fr, scans, hd>>

PoolIterate ==
    /\ lk.op = "loadPoolShareTrustLinessByAccount"
    /\ lk.pc = "loop"
    /\ PoolGuard(lk)
    /\ lk' = PoolLoopBody(lk)
    /\ UNCHANGED <<args, mg, bm, list, fr, scans, hd>>

PoolReturn ==
    /\ lk.op = "loadPoolShareTrustLinessByAccount"
    /\ lk.pc = "loop"
    /\ ~PoolGuard(lk)
    /\ lk' = NextLevel(lk)
    /\ UNCHANGED <<args, mg, bm, list, fr, scans, hd>>

LookupKeys == 1..MaxLookupKey

\* what a bucket of a level may hold for key k: its value tells the level
LookupRecordsFor(k, level) ==
    {LookupRecord(t, k, level) : t \in {INITENTRY, LIVEENTRY}}
    \cup {LookupRecord(DEADENTRY, k, 0)}

\* the files of a level: a META and records of strictly ascending keys
LookupFiles(level) ==
    LET Choice == [LookupKeys ->
                      UNION {LookupRecordsFor(k, level) : k \in LookupKeys}
                          \cup {None}]
    IN {<<LookupMeta>> \o SeqOfChoice(f, 1, MaxLookupKey) :
          f \in {g \in Choice :
                   \A k \in LookupKeys : g[k] = None \/ g[k].key = k}}

\* the indexed buckets of a level: with an index of records, whose filter
\* lets the bucket's keys through, or with an index of pages, whose filter
\* lets through those or every key
LookupBuckets(level) ==
    {[file |-> f, index |-> BucketIndex(f, 0, KeysOf(f) \ {0})] :
        f \in LookupFiles(level)}
    \cup {[file |-> f, index |-> BucketIndex(f, PageSize, KeysOf(f) \ {0})] :
             f \in LookupFiles(level)}
    \cup {[file |-> f, index |-> BucketIndex(f, PageSize, LookupKeys)] :
             f \in LookupFiles(level)}

\* the variables no lookup touches
InitNoLookup ==
    /\ hd = IdleHandle
    /\ ev = IdleScan
    /\ evlog = <<>>
    /\ fr = IdleFresh
    /\ oldBucket = EmptyBucket
    /\ newBucket = EmptyBucket
    /\ shadows = <<>>
    /\ maxProtocolVersion = MaxVersion
    /\ keepDeadEntries = TRUE
    /\ countMergeEvents = TRUE
    /\ mg = IdleFrame
    /\ bm = [isShutdown |-> FALSE, incrMergeCounters |-> 0, adopted |-> <<>>,
            mergeKeys |-> <<>>]
    /\ bucketList = <<>>
    /\ lookup0 = <<>>

\* SpecPoint: getBucketEntry of every key on every indexed bucket.
InitPoint ==
    /\ \E b \in LookupBuckets(1), k \in LookupKeys : lk = PointCall(b, k)
    /\ InitNoLookup

NextPoint == PointLookup \/ PointRead

SpecPoint == InitPoint /\ [][NextPoint]_vars

\* an entry the result list holds before the first call
EarlierEntry == [key |-> 0, val |-> 0]

\* SpecLoadKeys: loadKeys of every set of keys through MaxLevels indexed
\* buckets, the newest first, with the same set and the same result list.
InitLoadKeys ==
    /\ \E newest \in LookupBuckets(1), oldest \in LookupBuckets(MaxLevels),
          keys \in SUBSET LookupKeys :
          lk = LoadKeysCall(<<newest, oldest>>, keys, <<EarlierEntry>>)
    /\ InitNoLookup

NextLoadKeys == LoadKeysBegin \/ LoadKeysIterate \/ LoadKeysReturn

SpecLoadKeys == InitLoadKeys /\ [][NextLoadKeys]_vars

\* SpecPool: loadPoolShareTrustLinessByAccount of one account through
\* MaxLevels indexed buckets, the newest first, with the same seen set and
\* the same maps, empty before the first call.
InitPool ==
    /\ \E newest \in LookupBuckets(1), oldest \in LookupBuckets(MaxLevels) :
          /\ newest.index.pageSize = 0
          /\ oldest.index.pageSize = 0
          /\ lk = PoolCall(<<newest, oldest>>)
    /\ InitNoLookup

NextPool == PoolBegin \/ PoolIterate \/ PoolReturn

SpecPool == InitPool /\ [][NextPool]_vars

(***************************************************************************)
(* Operations on a bucket handle.                                          *)
(***************************************************************************)
SetIndex ==
    /\ \E index \in 1..MaxIndex : hd' = setIndex(hd, index)
    /\ UNCHANGED <<args, mg, bm, list, fr, scans, lk>>

FreeIndex ==
    /\ hd' = freeIndex(hd)
    /\ UNCHANGED <<args, mg, bm, list, fr, scans, lk>>

GetIndex ==
    /\ hd' = getIndex(hd)
    /\ UNCHANGED <<args, mg, bm, list, fr, scans, lk>>

IsIndexed ==
    /\ hd' = isIndexed(hd)
    /\ UNCHANGED <<args, mg, bm, list, fr, scans, lk>>

IsEmpty ==
    /\ hd' = isEmpty(hd)
    /\ UNCHANGED <<args, mg, bm, list, fr, scans, lk>>

GetIndexStream ==
    /\ hd' = getIndexStream(hd)
    /\ UNCHANGED <<args, mg, bm, list, fr, scans, lk>>

\* SpecHandle: the operations in any order on every handle the
\* constructors make.
InitHandle ==
    /\ \E filename \in {NoFile, "bucket.xdr"}, hash \in ZeroHash..MaxHash,
          size \in 1..MaxFileSize, index \in NoIndex..MaxIndex :
          hd = Handle(filename, hash, size, index)
    /\ lk = IdleLookup
    /\ ev = IdleScan
    /\ evlog = <<>>
    /\ fr = IdleFresh
    /\ oldBucket = EmptyBucket
    /\ newBucket = EmptyBucket
    /\ shadows = <<>>
    /\ maxProtocolVersion = MaxVersion
    /\ keepDeadEntries = TRUE
    /\ countMergeEvents = TRUE
    /\ mg = IdleFrame
    /\ bm = [isShutdown |-> FALSE, incrMergeCounters |-> 0, adopted |-> <<>>,
            mergeKeys |-> <<>>]
    /\ bucketList = <<>>
    /\ lookup0 = <<>>

NextHandle ==
    SetIndex \/ FreeIndex \/ GetIndex \/ IsIndexed \/ IsEmpty \/ GetIndexStream

SpecHandle == InitHandle /\ [][NextHandle]_vars

(***************************************************************************)
(* A list of buckets, newest first, whose adjacent pairs are merged.       *)
(***************************************************************************)
\* the entry a bucket holds for key k, or None
EntryAt(b, k) ==
    IF k \in KeysOf(b.entries)
    THEN b.entries[CHOOSE i \in 1..Len(b.entries) : b.entries[i].key = k]
    ELSE None

\* the index of the newest bucket from the i-th on that holds key k, or 0
RECURSIVE NextHolder(_, _, _)
NextHolder(bl, i, k) ==
    IF i > Len(bl) THEN 0
    ELSE IF k \in KeysOf(bl[i].entries) THEN i
    ELSE NextHolder(bl, i + 1, k)

\* What a reader finds for key k: the newest entry decides; a DEADENTRY and
\* no entry at all both read as not live.
NotLive == [live |-> FALSE, val |-> 0]
Lookup(bl, k) ==
    LET i == NextHolder(bl, 1, k)
    IN IF i = 0 THEN NotLive
       ELSE LET e == EntryAt(bl[i], k)
            IN IF e.type = DEADENTRY THEN NotLive
               ELSE [live |-> TRUE, val |-> e.val]

\* Every INITENTRY has as next-older entry of its key a DEADENTRY or nothing.
InitPredecessorOK(bl) ==
    \A i \in 1..Len(bl) : \A k \in KeysOf(bl[i].entries) :
        EntryAt(bl[i], k).type = INITENTRY =>
            LET j == NextHolder(bl, i + 1, k)
            IN j = 0 \/ EntryAt(bl[j], k).type = DEADENTRY

\* the buckets of bl at the indices in S, in the order of the list
RECURSIVE SubList(_, _, _)
SubList(bl, S, i) ==
    IF i > Len(bl) THEN <<>>
    ELSE (IF i \in S THEN <<bl[i]>> ELSE <<>>) \o SubList(bl, S, i + 1)

\* the list with its i-th and (i+1)-th bucket replaced by b
ReplacePair(bl, i, b) ==
    [j \in 1..(Len(bl) - 1) |->
        IF j < i THEN bl[j] ELSE IF j = i THEN b ELSE bl[j + 1]]

ListVersions ==
    FIRST_PROTOCOL_SUPPORTING_INITENTRY_AND_METAENTRY..FIRST_PROTOCOL_SHADOWS_REMOVED

ListBuckets ==
    {MkBucket(v, es) :
       v \in ListVersions, es \in SortedEntrySeqs(ListKeys, 1..ListVals)}

\* the protocol of a ledger never decreases: a newer bucket is of no older
\* protocol than an older one
VersionsAgeOrdered(bl) ==
    \A i \in 1..(Len(bl) - 1) : bl[i].version >= bl[i + 1].version

\* SpecList: every list of ListLen buckets at protocols from the first one
\* with INITENTRY on, in which every INITENTRY has a DEADENTRY or nothing
\* as its predecessor.
InitList ==
    /\ bucketList \in {bl \in [1..ListLen -> ListBuckets] :
                          /\ VersionsAgeOrdered(bl)
                          /\ InitPredecessorOK(bl)}
    /\ lookup0 = [k \in 1..ListKeys |-> Lookup(bucketList, k)]
    /\ oldBucket = EmptyBucket
    /\ newBucket = EmptyBucket
    /\ shadows = <<>>
    /\ maxProtocolVersion = MaxVersion
    /\ keepDeadEntries = TRUE
    /\ countMergeEvents = TRUE
    /\ mg = IdleFrame
    /\ evlog = <<>>
    /\ lk = IdleLookup
    /\ hd = IdleHandle
    /\ fr = IdleFresh
    /\ ev = IdleScan
    /\ bm = [isShutdown |-> FALSE, incrMergeCounters |-> 0, adopted |-> <<>>,
            mergeKeys |-> <<>>]

\* The frame of the merge of the pair (new, old) = (bl[i], bl[i+1]) under
\* the shadows bl[j], j in S.
PairMerge(bl, i, S, keepDead, maxPV) ==
    MergeFrame(bl[i + 1], bl[i], SubList(bl, S, 1), keepDead, maxPV, FALSE)

\* A step of the list: an adjacent pair is replaced by its merge under any
\* shadows among the strictly newer buckets; tombstones are dropped only
\* when the pair's old bucket is the oldest of the list.
MergePair ==
    \E i \in 1..(Len(bucketList) - 1) :
    \E S \in SUBSET (1..(i - 1)) :
    \E keepDead \in BOOLEAN :
        /\ keepDead \/ i + 1 = Len(bucketList)
        /\ LET m == PairMerge(bucketList, i, S, keepDead, maxProtocolVersion)
           IN /\ m.pc = "done"
              /\ bucketList' = ReplacePair(bucketList, i, getBucket(m.out))
        /\ UNCHANGED <<args, mg, bm, lookup0, calls>>

NextList == MergePair

SpecList == InitList /\ [][NextList]_vars

\* C2: no resurrection: what a reader finds for every key is what it found
\* when the list was formed, after any sequence of merges of adjacent pairs.
NoResurrection ==
    bucketList # <<>> =>
        \A k \in 1..ListKeys : Lookup(bucketList, k) = lookup0[k]

NoResurrectionWitness ==
    /\ Len(bucketList) = ListLen - 2
    /\ \E k \in 1..ListKeys :
          /\ ~lookup0[k].live
          /\ EntryAt(bucketList[1], k).type = DEADENTRY
          /\ \E j \in 2..Len(bucketList) :
                EntryAt(bucketList[j], k).type = LIVEENTRY

ShadowKeys == UNION {KeysOf(shadows[i].entries) : i \in 1..Len(shadows)}

\* the entries of key k in a sequence of entries
OfKey(es, k) == SelectSeq(es, LAMBDA e : e.key = k)

\* the merge is past calculateMergeProtocolVersion and has not thrown
Running == mg.pc \in {"loop", "done"}

PostInit ==
    mg.protocolVersion >= FIRST_PROTOCOL_SUPPORTING_INITENTRY_AND_METAENTRY

\* the iterator has moved past the entry of key k
Passed(it, k) ==
    \A i \in 1..Len(it.entries) : it.entries[i].key = k => it.pos > i

\* C1: the entries handed to the output builder are strictly ascending by
\* key at every point of a merge of strictly ascending inputs, so no two of
\* them share a key; the same holds of the bucket published.
SortedOutput ==
    /\ StrictlyAscending(mg.out.puts)
    /\ \A i, j \in 1..Len(mg.out.puts) :
          i # j => mg.out.puts[i].key # mg.out.puts[j].key
    /\ mg.pc = "done" => StrictlyAscending(bm.adopted[1].entries)

SortedOutputWitness ==
    /\ mg.pc = "done"
    /\ shadows # <<>>
    /\ Len(oldBucket.entries) = MaxKey
    /\ Len(newBucket.entries) = MaxKey
    /\ Len(mg.out.puts) = MaxKey

\* C4: without shadows and from the first protocol with INITENTRY on, a key
\* that is INIT in the old bucket and DEAD in the new one is never handed to
\* the builder, the two cursors pass it together, and at the end both have
\* passed it and the published bucket does not hold it.
AnnihilatedKeys ==
    {k \in Keys : /\ EntryAt(oldBucket, k).type = INITENTRY
                  /\ EntryAt(newBucket, k).type = DEADENTRY}

InitDeadAnnihilation ==
    (Running /\ shadows = <<>> /\ PostInit) =>
        \A k \in AnnihilatedKeys :
            /\ k \notin KeysOf(mg.out.puts)
            /\ Passed(mg.oi, k) <=> Passed(mg.ni, k)
            /\ mg.pc = "done" =>
                  /\ Passed(mg.oi, k)
                  /\ k \notin KeysOf(bm.adopted[1].entries)

InitDeadAnnihilationWitness ==
    /\ mg.pc = "done"
    /\ shadows = <<>>
    /\ PostInit
    /\ AnnihilatedKeys # {}
    /\ mg.out.puts # <<>>
    /\ mg.mc.mOldInitEntriesMergedWithNewDead > 0

\* C5: without shadows and from the first protocol with INITENTRY on, a key
\* that is DEAD in the old bucket and INIT in the new one comes out as
\* exactly one entry, LIVE with the new entry's value.
UpgradedKeys ==
    {k \in Keys : /\ EntryAt(oldBucket, k).type = DEADENTRY
                  /\ EntryAt(newBucket, k).type = INITENTRY}

DeadInitUpgrade ==
    (mg.pc = "done" /\ shadows = <<>> /\ PostInit) =>
        \A k \in UpgradedKeys :
            LET live == LiveEntry(k, EntryAt(newBucket, k).val)
            IN /\ OfKey(mg.out.puts, k) = <<live>>
               /\ OfKey(bm.adopted[1].entries, k) = <<live>>

DeadInitUpgradeWitness ==
    /\ mg.pc = "done"
    /\ shadows = <<>>
    /\ PostInit
    /\ ~keepDeadEntries
    /\ \E k \in UpgradedKeys : EntryAt(newBucket, k).val = MaxVal

\* C6: at the end of a merge, for a key held by both inputs whose new entry
\* is not INIT: old INIT + new LIVE hands the builder exactly INIT with the
\* new value; with neither INIT the builder is handed the new entry
\* unchanged, or nothing when the shadows elide it; no entry of the key
\* handed to the builder carries another value than the new entry's.
PairedKeys ==
    {k \in KeysOf(oldBucket.entries) \cap KeysOf(newBucket.entries) :
        EntryAt(newBucket, k).type # INITENTRY}

ShadowElides(e) ==
    /\ e.key \in ShadowKeys
    /\ (~mg.keepShadowedLifecycleEntries \/ e.type = LIVEENTRY)

EqualKeysTakeNew ==
    mg.pc = "done" =>
        \A k \in PairedKeys :
            LET o == EntryAt(oldBucket, k)
                n == EntryAt(newBucket, k)
                got == OfKey(mg.out.puts, k)
            IN /\ (o.type = INITENTRY /\ n.type = LIVEENTRY) =>
                     got = <<InitEntry(k, n.val)>>
               /\ o.type # INITENTRY =>
                     got = IF ShadowElides(n) THEN <<>> ELSE <<n>>
               /\ \A i \in 1..Len(got) : got[i].val = n.val

EqualKeysTakeNewWitness ==
    /\ mg.pc = "done"
    /\ \E k \in PairedKeys :
          /\ EntryAt(oldBucket, k).type = INITENTRY
          /\ EntryAt(newBucket, k).type = LIVEENTRY
          /\ EntryAt(oldBucket, k).val # EntryAt(newBucket, k).val
    /\ \E k \in PairedKeys :
          /\ EntryAt(oldBucket, k).type = LIVEENTRY
          /\ EntryAt(newBucket, k).type = LIVEENTRY
          /\ EntryAt(oldBucket, k).val # EntryAt(newBucket, k).val
          /\ OfKey(mg.out.puts, k) # <<>>

\* C7: from the first protocol with INITENTRY on, the INIT and DEAD entries
\* handed to the builder are those the inputs and the lifecycle table give,
\* whatever the shadows hold: no INIT, DEAD or META is elided by a shadow.
IsLifecycle(e) == e.type = INITENTRY \/ e.type = DEADENTRY

LifecycleCandidates ==
    LET ok == KeysOf(oldBucket.entries)
        nk == KeysOf(newBucket.entries)
    IN {EntryAt(oldBucket, k) : k \in ok \ nk}
       \cup {EntryAt(newBucket, k) : k \in nk \ ok}
       \cup {EqualKeysResult(EntryAt(oldBucket, k), EntryAt(newBucket, k)) :
               k \in ok \cap nk}

ShadowsKeepLifecycle ==
    (mg.pc = "done" /\ mg.keepShadowedLifecycleEntries) =>
        /\ {mg.out.puts[i] : i \in {j \in 1..Len(mg.out.puts) :
                                       IsLifecycle(mg.out.puts[j])}}
              = {e \in LifecycleCandidates : IsLifecycle(e)}
        /\ mg.mc.mShadowElisions[INITENTRY] = 0
        /\ mg.mc.mShadowElisions[DEADENTRY] = 0
        /\ mg.mc.mShadowElisions[METAENTRY] = 0

ShadowsKeepLifecycleWitness ==
    /\ mg.pc = "done"
    /\ mg.keepShadowedLifecycleEntries
    /\ \E i \in 1..Len(mg.out.puts) :
          /\ mg.out.puts[i].type = DEADENTRY
          /\ mg.out.puts[i].key \in ShadowKeys
    /\ mg.mc.mShadowElisions[LIVEENTRY] > 0

\* C8: before the first protocol with INITENTRY, no entry whose key a shadow
\* holds is handed to the builder, DEAD or LIVE, and at the end the keys
\* handed to it are exactly the keys of the inputs that no shadow holds.
PreInitShadowingDropsAll ==
    (Running /\ ~mg.keepShadowedLifecycleEntries) =>
        /\ KeysOf(mg.out.puts) \cap ShadowKeys = {}
        /\ mg.pc = "done" =>
              /\ KeysOf(mg.out.puts) =
                    (KeysOf(oldBucket.entries) \cup KeysOf(newBucket.entries))
                        \ ShadowKeys
              /\ KeysOf(bm.adopted[1].entries) \cap ShadowKeys = {}

PreInitShadowingDropsAllWitness ==
    /\ mg.pc = "done"
    /\ ~mg.keepShadowedLifecycleEntries
    /\ mg.mc.mShadowElisions[DEADENTRY] > 0
    /\ mg.mc.mShadowElisions[LIVEENTRY] > 0

\* C9: the protocol version of a merge is the greatest of the versions of
\* the old bucket, the new bucket and the shadows below
\* FIRST_PROTOCOL_SHADOWS_REMOVED, and it is the version in the META of the
\* output.
SetMax(S) == CHOOSE x \in S : \A y \in S : y <= x

CountedVersions ==
    {oldBucket.version, newBucket.version}
    \cup {shadows[i].version :
            i \in {j \in 1..Len(shadows) :
                     shadows[j].version < FIRST_PROTOCOL_SHADOWS_REMOVED}}

ArgsVersion == SetMax(CountedVersions)

AllAtStart ==
    /\ mg.oi.pos = 1
    /\ mg.ni.pos = 1
    /\ \A i \in 1..Len(mg.shadowIterators) : mg.shadowIterators[i].pos = 1

\* C11: a merge fails on the protocol ceiling exactly when its version
\* exceeds maxProtocolVersion, and then no output builder exists, no cursor
\* has moved and nothing is published.
ProtocolCeiling ==
    mg.pc # "begin" =>
        /\ (mg.threw = ErrCeiling) <=> (ArgsVersion > maxProtocolVersion)
        /\ mg.threw = ErrCeiling =>
              /\ mg.pc = "error"
              /\ ~mg.out.created
              /\ mg.out.puts = <<>>
              /\ AllAtStart
              /\ bm.adopted = <<>>

ProtocolCeilingWitness ==
    /\ mg.threw = ErrCeiling
    /\ oldBucket.entries # <<>>
    /\ newBucket.entries # <<>>
    /\ shadows # <<>>

\* C12: a merge with shadows whose version is at or above
\* FIRST_PROTOCOL_SHADOWS_REMOVED ends in an error with no output builder
\* and nothing written or published; a merge that has written an entry has
\* no shadows or a version below FIRST_PROTOCOL_SHADOWS_REMOVED.
ShadowUseViolation ==
    mg.pc # "begin" =>
        /\ (shadows # <<>> /\ ArgsVersion >= FIRST_PROTOCOL_SHADOWS_REMOVED) =>
              /\ mg.pc = "error"
              /\ mg.threw \in {ErrShadows, ErrCeiling}
              /\ mg.threw = ErrShadows <=> ArgsVersion <= maxProtocolVersion
              /\ ~mg.out.created
              /\ mg.out.puts = <<>>
              /\ mg.out.written = <<>>
              /\ AllAtStart
              /\ bm.adopted = <<>>
        /\ mg.out.written # <<>> =>
              (shadows = <<>> \/ ArgsVersion < FIRST_PROTOCOL_SHADOWS_REMOVED)
        /\ mg.threw = ErrShadows =>
              (shadows # <<>> /\ ArgsVersion >= FIRST_PROTOCOL_SHADOWS_REMOVED)

ShadowUseViolationWitness ==
    /\ mg.threw = ErrShadows
    /\ oldBucket.entries # <<>>
    /\ newBucket.entries # <<>>
    /\ \E i \in 1..Len(shadows) :
          shadows[i].version < FIRST_PROTOCOL_SHADOWS_REMOVED

\* C13: a key whose new entry is INIT and whose old entry is INIT or LIVE
\* is never handed to the builder and is passed by neither cursor, and the
\* merge does not complete; a merge stopped with both cursors on such a key
\* has thrown, from the first protocol with INITENTRY on as a malformed
\* bucket; a new INIT is accepted over an equal key only if the old entry
\* is DEAD.
MalformedKeys ==
    {k \in Keys : /\ EntryAt(newBucket, k).type = INITENTRY
                  /\ EntryAt(oldBucket, k).type \in {INITENTRY, LIVEENTRY}}

BothAt(k) ==
    /\ ItValid(mg.oi)
    /\ ItValid(mg.ni)
    /\ Deref(mg.oi).key = k
    /\ Deref(mg.ni).key = k

MalformedPairRejected ==
    mg.pc # "begin" =>
        /\ \A k \in MalformedKeys :
              /\ k \notin KeysOf(mg.out.puts)
              /\ ~Passed(mg.oi, k)
              /\ ~Passed(mg.ni, k)
              /\ mg.pc # "done"
              /\ (mg.pc = "error" /\ BothAt(k)) =>
                    mg.threw = IF PostInit THEN ErrMalformed ELSE ErrLegality
        /\ mg.threw = ErrMalformed => \E k \in MalformedKeys : BothAt(k)
        /\ mg.mc.mNewInitEntriesMergedWithOldDead > 0 => UpgradedKeys # {}

MalformedPairRejectedWitness ==
    /\ mg.threw = ErrMalformed
    /\ mg.out.puts # <<>>
    /\ \E k \in MalformedKeys :
          /\ BothAt(k)
          /\ EntryAt(oldBucket, k).type = LIVEENTRY

\* C14: nothing is published and the manager's merge counters are untouched
\* while a merge runs and when it has ended in an error (ceiling, shadows,
\* illegal entry, malformed pair, shutdown); a merge that has succeeded has
\* published exactly one bucket, with both input cursors exhausted, and has
\* incremented the counters once if countMergeEvents.
MergeErrors == {ErrCeiling, ErrShadows, ErrLegality, ErrMalformed, ErrShutdown}

CommitPoint ==
    /\ mg.pc \in {"begin", "loop", "error"} =>
          /\ bm.adopted = <<>>
          /\ bm.incrMergeCounters = 0
    /\ mg.pc = "error" <=> mg.threw \in MergeErrors
    /\ mg.pc = "done" =>
          /\ Len(bm.adopted) = 1
          /\ bm.adopted[1] = getBucket(mg.out)
          /\ ~ItValid(mg.oi)
          /\ ~ItValid(mg.ni)
          /\ bm.incrMergeCounters = IF countMergeEvents THEN 1 ELSE 0

CommitPointWitness ==
    /\ mg.threw = ErrLegality
    /\ mg.out.created
    /\ bm.isShutdown
    /\ countMergeEvents
    /\ shadows # <<>>

\* the entries a builder writes of a sequence handed to it
Kept(es) ==
    IF keepDeadEntries THEN es
    ELSE SelectSeq(es, LAMBDA e : e.type # DEADENTRY)

\* the input of a merge with a bucket without entries that holds the entries
TheInput == IF oldBucket.entries = <<>> THEN newBucket ELSE oldBucket

OneSideEmpty ==
    /\ shadows = <<>>
    /\ oldBucket.entries = <<>> \/ newBucket.entries = <<>>

\* C15 as claimed: a merge without shadows of a bucket with a bucket without
\* entries, on either side, publishes exactly the bucket's entries in their
\* order.
IdempotentMergeAnyBuilder ==
    (mg.pc # "begin" /\ OneSideEmpty) =>
        /\ mg.pc # "error"
        /\ mg.pc = "done" => bm.adopted[1].entries = TheInput.entries

\* C15 as amended: such a merge never fails, hands the builder exactly the
\* bucket's entries in their order, and publishes them all if
\* keepDeadEntries, and all but the DEAD ones, in their order, otherwise.
IdempotentMergeKeepingDead ==
    (mg.pc # "begin" /\ OneSideEmpty) =>
        /\ mg.pc # "error"
        /\ mg.pc = "done" =>
              /\ mg.out.puts = TheInput.entries
              /\ bm.adopted[1].entries = Kept(TheInput.entries)
              /\ bm.adopted[1].version =
                    Max(oldBucket.version, newBucket.version)

IdempotentMergeKeepingDeadWitness ==
    /\ mg.pc = "done"
    /\ oldBucket = EmptyBucket
    /\ ~keepDeadEntries
    /\ Len(newBucket.entries) = MaxKey
    /\ \E i \in 1..MaxKey : newBucket.entries[i].type = DEADENTRY
    /\ \E i \in 1..MaxKey : newBucket.entries[i].type = INITENTRY

\* C16: any two completed merges with the same keepDeadEntries, old bucket,
\* new bucket and shadows have published the same bucket, META version and
\* entries, whatever maxProtocolVersion and countMergeEvents each was called
\* with and whatever merges ran between them.
MergeDeterministic ==
    \A i, j \in 1..Len(bm.adopted) :
        bm.mergeKeys[i] = bm.mergeKeys[j] => bm.adopted[i] = bm.adopted[j]

MergeDeterministicWitness ==
    /\ mg.pc = "done"
    /\ Len(bm.adopted) = 3
    /\ bm.mergeKeys[1] = bm.mergeKeys[3]
    /\ bm.mergeKeys[2] # bm.mergeKeys[1]
    /\ bm.adopted[2] # bm.adopted[1]
    /\ bm.adopted[1].entries # <<>>
    /\ maxProtocolVersion = MaxVersion - 1
    /\ ~countMergeEvents
    /\ shadows # <<>>

(***************************************************************************)
(* Properties of Bucket::fresh.                                            *)
(***************************************************************************)
\* the keys of the input entries of the call, one per entry
FreshInputKeys ==
    [i \in 1..Len(fr.initEntries) |-> fr.initEntries[i].key]
    \o [i \in 1..Len(fr.liveEntries) |-> fr.liveEntries[i].key]
    \o fr.deadEntries

FreshDuplicate ==
    \E i, j \in 1..Len(FreshInputKeys) :
        i # j /\ FreshInputKeys[i] = FreshInputKeys[j]

\* the records the claim gives the input entries
FreshExpected ==
    {[type |-> IF fr.protocolVersion >=
                     FIRST_PROTOCOL_SUPPORTING_INITENTRY_AND_METAENTRY
               THEN INITENTRY ELSE LIVEENTRY,
      key |-> fr.initEntries[i].key, val |-> fr.initEntries[i].val] :
        i \in 1..Len(fr.initEntries)}
    \cup {[type |-> LIVEENTRY, key |-> fr.liveEntries[i].key,
           val |-> fr.liveEntries[i].val] : i \in 1..Len(fr.liveEntries)}
    \cup {[type |-> DEADENTRY, key |-> fr.deadEntries[i], val |-> 0] :
            i \in 1..Len(fr.deadEntries)}

Range(f) == {f[i] : i \in DOMAIN f}

\* C17: a call of Bucket::fresh whose input entries have distinct keys
\* writes its records in strictly ascending key order, never fails, and
\* publishes exactly one record per input entry: init entries as INIT from
\* the first protocol with INITENTRY on and as LIVE before, live entries as
\* LIVE, dead entries as DEAD; a call with two input entries of one key
\* fails before the builder exists and publishes nothing.
FreshConstruction ==
    fr.pc \notin {"idle", "begin"} =>
        IF FreshDuplicate
        THEN /\ fr.pc = "abort"
             /\ ~fr.out.created
             /\ fr.out.written = <<>>
             /\ bm.adopted = <<>>
        ELSE /\ fr.pc # "abort"
             /\ StrictlyAscending(fr.out.written)
             /\ Range(fr.out.written) \subseteq FreshExpected
             /\ Len(fr.out.written) = fr.pos - 1
             /\ fr.pc = "done" =>
                   /\ Len(bm.adopted[1].entries) = Len(FreshInputKeys)
                   /\ Range(bm.adopted[1].entries) = FreshExpected
                   /\ StrictlyAscending(bm.adopted[1].entries)
                   /\ bm.adopted[1].version = fr.protocolVersion

FreshConstructionWitness ==
    /\ fr.pc = "done"
    /\ fr.protocolVersion = FIRST_PROTOCOL_SUPPORTING_INITENTRY_AND_METAENTRY
    /\ Len(fr.initEntries) = 1
    /\ Len(fr.deadEntries) = 1
    /\ Len(fr.liveEntries) = 1
    /\ fr.deadEntries[1] < fr.liveEntries[1].key
    /\ fr.liveEntries[1].key < fr.initEntries[1].key

(***************************************************************************)
(* Properties of Bucket::scanForEviction.                                  *)
(***************************************************************************)
ScanSkipped ==
    ev.bucket.empty \/ ev.bucket.version < SOROBAN_PROTOCOL_VERSION

ScanUntouched ==
    /\ ev.iter = ev.entry.iter
    /\ ev.bytesToScan = ev.entry.bytesToScan
    /\ ev.remainingEntriesToEvict = ev.entry.remainingEntriesToEvict
    /\ ev.ltx = ev.entry.ltx
    /\ ev.erased = <<>>
    /\ ev.read = <<>>
    /\ ~ev.eof

\* C18: a call that has returned has returned false exactly when the bucket
\* is empty or of a protocol before SOROBAN or a read found end of file,
\* which happens only with both budgets non-zero; for an empty or
\* pre-SOROBAN bucket the iterator, the budgets and the ledger transaction
\* are as on entry; a call that has returned true leaves a budget at zero;
\* a call entered with a zero budget on a non-empty SOROBAN bucket returns
\* true and has read nothing.
ScanResult ==
    /\ ev.eof => (ev.bytesToScan > 0 /\ ev.remainingEntriesToEvict > 0)
    /\ ev.pc = "done" =>
          /\ ~ev.result <=> (ScanSkipped \/ ev.eof)
          /\ ScanSkipped => ScanUntouched
          /\ ev.result =>
                (ev.bytesToScan = 0 \/ ev.remainingEntriesToEvict = 0)
          /\ (~ScanSkipped /\ (ev.entry.bytesToScan = 0
                                \/ ev.entry.remainingEntriesToEvict = 0)) =>
                (ev.result /\ ScanUntouched)

ScanResultWitness ==
    /\ ev.pc = "done"
    /\ ev.eof
    /\ ~ev.result
    /\ Len(ev.read) = ScanKeys + 1
    /\ ev.erased # <<>>
    /\ ev.remainingEntriesToEvict > 0

\* a step of the scan in which readOne returned a record
ReadsRecord == ev.pc = "loop" /\ Len(ev'.read) = Len(ev.read) + 1

\* that record, and the bytes it took
RecordRead == ev.bucket.file[ev'.read[Len(ev'.read)]]

\* the condition under which the claim has a record evicted
MustEvict(be) ==
    /\ be.type \in {INITENTRY, LIVEENTRY}
    /\ be.temp
    /\ ev.ltx[be.key].entry
    /\ ev.ltx[be.key].ttl < ev.ledgerSeq

\* C19: a record read mutates the ledger transaction if and only if it is
\* LIVE or INIT, temporary, present in the ledger transaction and with a
\* TTL entry that lives until before ledgerSeq; then exactly its TTL key
\* and its key are erased and remainingEntriesToEvict drops by one; for
\* every other record nothing is erased and remainingEntriesToEvict stays.
EvictionRule ==
    [][ReadsRecord =>
         IF MustEvict(RecordRead)
         THEN /\ ev'.erased = ev.erased
                                \o <<[ttl |-> TRUE, key |-> RecordRead.key],
                                     [ttl |-> FALSE, key |-> RecordRead.key]>>
              /\ ev'.ltx = [ev.ltx EXCEPT ![RecordRead.key] = NoLedgerEntry]
              /\ ev'.remainingEntriesToEvict = ev.remainingEntriesToEvict - 1
              /\ ev.remainingEntriesToEvict > 0
              /\ ev'.entriesEvictedCounter = ev.entriesEvictedCounter + 1
         ELSE /\ ev'.erased = ev.erased
              /\ ev'.ltx = ev.ltx
              /\ ev'.remainingEntriesToEvict = ev.remainingEntriesToEvict
              /\ ev'.entriesEvictedCounter = ev.entriesEvictedCounter
              /\ ev'.metrics = ev.metrics
              /\ ev'.pc # "abort"]_vars

EvictionRuleWitness ==
    /\ ev.pc = "done"
    /\ Len(ev.read) = ScanKeys + 1
    /\ Len(ev.erased) = 2
    /\ \E i \in 2..Len(ev.bucket.file) :
          LET be == ev.bucket.file[i]
          IN /\ be.type = INITENTRY
             /\ be.temp
             /\ ev.ltx[be.key].entry
             /\ ev.ltx[be.key].ttl = ev.ledgerSeq
    /\ \E k \in 1..ScanKeys :
          ev.entry.ltx[k].entry /\ ~ev.ltx[k].entry

\* the bytes of the record read and the stream position after it
BytesOfRecord == RecordRead.size

PositionAfterRecord == OffsetOf(ev.bucket.file, ev'.read[Len(ev'.read)] + 1)

\* C20: after every record read bytesToScan is less by the bytes of the
\* record, or 0 when the record is at least as large as the budget, and
\* iter.bucketFileOffset is the stream position after the record.
ByteAccounting ==
    [][ReadsRecord =>
         /\ ev'.bytesToScan =
               IF BytesOfRecord >= ev.bytesToScan THEN 0
               ELSE ev.bytesToScan - BytesOfRecord
         /\ ev'.iter.bucketFileOffset = PositionAfterRecord]_vars

\* the state C20 fails in: the call has returned because the entry budget
\* reached 0, with bytes of the byte budget left
ByteAccountingWitness ==
    /\ ev.pc = "done"
    /\ ev.result
    /\ ev.remainingEntriesToEvict = 0
    /\ ev.entry.remainingEntriesToEvict = MaxEvict
    /\ ev.bytesToScan > 0
    /\ ev.iter.bucketFileOffset = FileSize(ev.bucket.file)

(***************************************************************************)
(* Claims about repeated calls of scanForEviction.                         *)
(***************************************************************************)
\* the second call on the iterator has returned
SecondReturned == Len(evlog) = 1 /\ ev.pc = "done"

FirstCall == evlog[1]

\* the second call was handed the entry budget the first one left, and the
\* budget is not exhausted when it returns
EntryBudgetKept ==
    /\ ev.entry.remainingEntriesToEvict = FirstCall.remainingEntriesToEvict
    /\ ev.remainingEntriesToEvict > 0

\* one call from where the first call began, with the two byte budgets added
SingleCall ==
    ScanToReturn(ScanCall(ev.bucket, FirstCall.entry.ltx,
                          FirstCall.entry.iter.bucketFileOffset,
                          FirstCall.entry.bytesToScan + ev.entry.bytesToScan,
                          FirstCall.entry.remainingEntriesToEvict,
                          ev.ledgerSeq, FALSE))

Erasures(e) == {e.erased[i] : i \in 1..Len(e.erased)}

\* the bytes the first call read
FirstCallBytes ==
    FirstCall.iter.bucketFileOffset - FirstCall.entry.iter.bucketFileOffset

SameErasures ==
    /\ Erasures(SingleCall) = Erasures(ev)
    /\ SingleCall.ltx = ev.ltx

\* C21 as stated: two calls with byte budgets b1 and b2, the entry budget
\* not exhausted, erase from the ledger transaction what one call with byte
\* budget b1 + b2 erases.
EvictionResumptionAnySplit ==
    (SecondReturned /\ EntryBudgetKept
        /\ SingleCall.remainingEntriesToEvict > 0)
    => SameErasures

\* C21, amended: two calls with byte budgets b1 and b2, the entry budget not
\* exhausted, erase what one call with byte budget b1 + b2 erases, provided
\* the first call read no more than b1 bytes (its budget did not end inside
\* a record).
EvictionResumption ==
    (SecondReturned /\ EntryBudgetKept
        /\ SingleCall.remainingEntriesToEvict > 0
        /\ FirstCallBytes <= FirstCall.entry.bytesToScan)
    => SameErasures

\* both calls had a budget, the first call used its budget up exactly, and
\* the second call evicted an entry
EvictionResumptionWitness ==
    /\ SecondReturned
    /\ EntryBudgetKept
    /\ SingleCall.remainingEntriesToEvict > 0
    /\ FirstCall.entry.bytesToScan > 0
    /\ FirstCallBytes = FirstCall.entry.bytesToScan
    /\ ev.entry.bytesToScan > 0
    /\ ev.entry.ltx # ev.ltx
    /\ SameErasures

\* the offset the iterator held before the first call
InitialOffset ==
    IF evlog = <<>> THEN ev.entry.iter.bucketFileOffset
    ELSE evlog[1].entry.iter.bucketFileOffset

\* the records read by the calls that returned before the present one
ReadBefore == IF evlog = <<>> THEN <<>> ELSE evlog[Len(evlog)].read

\* C29: over the calls of scanForEviction on one bucket with one iterator,
\* iter.bucketFileOffset never decreases, each call reads on from the offset
\* at which the call before it stopped, the records between the initial and
\* the present offset have been read exactly once each, in order, and a
\* call that returns false at end of file leaves the offset at the end of
\* the last record.
ScanContinuity ==
    /\ InitialOffset <= ev.entry.iter.bucketFileOffset
    /\ ev.entry.iter.bucketFileOffset <= ev.iter.bucketFileOffset
    /\ \A i \in 1..Len(evlog) :
          evlog[i].entry.iter.bucketFileOffset <= evlog[i].iter.bucketFileOffset
    /\ \A i \in 1..(Len(ev.read) - 1) : ev.read[i + 1] = ev.read[i] + 1
    /\ IF ev.read = <<>>
       THEN ev.iter.bucketFileOffset = InitialOffset
       ELSE /\ OffsetOf(ev.bucket.file, ev.read[1]) = InitialOffset
            /\ OffsetOf(ev.bucket.file, ev.read[Len(ev.read)] + 1)
                   = ev.iter.bucketFileOffset
    /\ Len(ReadBefore) < Len(ev.read)
         => OffsetOf(ev.bucket.file, ev.read[Len(ReadBefore) + 1])
               = ev.entry.iter.bucketFileOffset
    /\ (ev.pc = "done" /\ ~ev.result)
         => /\ ev.eof
            /\ ev.iter.bucketFileOffset = FileSize(ev.bucket.file)

\* two calls from an offset past the META, each of which read a record, the
\* second one up to the end of the file
ScanContinuityWitness ==
    /\ Len(evlog) = 1
    /\ ev.pc = "done"
    /\ ~ev.result
    /\ InitialOffset > 0
    /\ Len(ReadBefore) > 0
    /\ Len(ev.read) > Len(ReadBefore)
    /\ ev.iter.bucketFileOffset = FileSize(ev.bucket.file)

(***************************************************************************)
(* Claims about the bucket handle.                                         *)
(***************************************************************************)
\* the operation of the step
HandleOp(op) == hd' # hd /\ hd'.last.op = op

\* C25: setIndex succeeds exactly when no index is attached and otherwise
\* leaves the attached index in place; freeIndex leaves no index; setIndex
\* after freeIndex succeeds; getIndex fails exactly when no index is
\* attached or the filename is empty; no operation changes the filename,
\* the hash or the size; isEmpty answers true exactly when the filename is
\* empty and the hash is zero, false when neither is, and throws when
\* exactly one is.
IndexAttachment ==
    [][/\ hd'.mFilename = hd.mFilename
       /\ hd'.mHash = hd.mHash
       /\ hd'.mSize = hd.mSize
       /\ HandleOp("setIndex")
            => /\ hd'.last.threw <=> hd.mIndex # NoIndex
               /\ hd'.mIndex = IF hd.mIndex # NoIndex THEN hd.mIndex
                                ELSE hd'.last.index
               /\ hd'.mIndex # NoIndex
               /\ hd.last.op = "freeIndex" => ~hd'.last.threw
       /\ HandleOp("freeIndex") => hd'.mIndex = NoIndex /\ ~hd'.last.threw
       /\ HandleOp("getIndex")
            => /\ hd'.last.threw
                     <=> (hd.mIndex = NoIndex \/ hd.mFilename = NoFile)
               /\ ~hd'.last.threw => hd'.last.index = hd.mIndex
               /\ hd'.mIndex = hd.mIndex
       /\ HandleOp("isEmpty")
            => /\ hd'.last.answer
                     <=> (hd.mFilename = NoFile /\ hd.mHash = ZeroHash)
               /\ hd'.last.threw
                     <=> ((hd.mFilename = NoFile) # (hd.mHash = ZeroHash))
               /\ hd'.mIndex = hd.mIndex
      ]_vars

\* setIndex has failed on a handle with an index, which is still attached
IndexAttachmentWitness ==
    /\ hd.last.op = "setIndex"
    /\ hd.last.threw
    /\ hd.mIndex # NoIndex
    /\ hd.mIndex # hd.last.index
    /\ hd.mFilename # NoFile

(***************************************************************************)
(* Further claims about one merge.                                         *)
(***************************************************************************)
\* the merge has computed a version before INITENTRY and METAENTRY
PreInitMerge ==
    /\ mg.pc # "begin"
    /\ mg.out.created
    /\ protocolVersionIsBefore(
           mg.protocolVersion, FIRST_PROTOCOL_SUPPORTING_INITENTRY_AND_METAENTRY)

\* the entries the cursor has passed
Consumed(it) == SubSeq(it.entries, 1, it.pos - 1)

IsInitOrMeta(e) == e.type = INITENTRY \/ e.type = METAENTRY

NoInitOrMeta(es) == \A i \in 1..Len(es) : ~IsInitOrMeta(es[i])

\* the iteration at the cursors of m has an INITENTRY or METAENTRY before it
ReachesInitOrMeta(m) ==
    IF TakeOld(m) THEN IsInitOrMeta(Deref(m.oi))
    ELSE IF TakeNew(m) THEN IsInitOrMeta(Deref(m.ni))
    ELSE IsInitOrMeta(Deref(m.oi)) \/ IsInitOrMeta(Deref(m.ni))

\* C28: in a merge whose version is before
\* FIRST_PROTOCOL_SUPPORTING_INITENTRY_AND_METAENTRY no cursor has passed an
\* INIT or META record, the merge that reaches one has failed at that
\* iteration with the legality error, and a merge that has succeeded has
\* passed (and so checked) every record of both inputs and has put and
\* written only LIVE and DEAD records.
ProtocolLegality ==
    PreInitMerge
    => /\ NoInitOrMeta(Consumed(mg.oi)) /\ NoInitOrMeta(Consumed(mg.ni))
       /\ mg.pc = "error"
            => /\ mg.threw = ErrLegality
               /\ MergeLoopGuard(mg)
               /\ ReachesInitOrMeta(mg)
       /\ mg.pc = "done"
            => /\ ~ItValid(mg.oi) /\ ~ItValid(mg.ni)
               /\ Consumed(mg.oi) = oldBucket.entries
               /\ Consumed(mg.ni) = newBucket.entries
               /\ NoInitOrMeta(mg.out.puts)
               /\ NoInitOrMeta(mg.out.written)

\* a merge before INITENTRY that has failed on an INIT record after an
\* iteration that passed a record
ProtocolLegalityWitness ==
    /\ PreInitMerge
    /\ mg.threw = ErrLegality
    /\ mg.oi.pos + mg.ni.pos > 2
    /\ ReachesInitOrMeta(mg)

\* the iterations of the loop that have run to their end: each one counts
\* in exactly one of these counters
LoopIterations(mc) ==
    mc.mOldEntriesDefaultAccepted + mc.mNewEntriesDefaultAccepted
    + mc.mNewInitEntriesMergedWithOldDead + mc.mOldInitEntriesMergedWithNewLive
    + mc.mOldInitEntriesMergedWithNewDead
    + mc.mNewEntriesMergedWithOldNeitherInit

\* the candidates elided under a shadow
Elisions(mc) ==
    mc.mShadowElisions[METAENTRY] + mc.mShadowElisions[INITENTRY]
    + mc.mShadowElisions[LIVEENTRY] + mc.mShadowElisions[DEADENTRY]

\* the INIT + DEAD pairs merged to nothing
Annihilations(mc) == mc.mOldInitEntriesMergedWithNewDead

EqualKeyed(m) ==
    /\ ItValid(m.oi) /\ ItValid(m.ni)
    /\ ~Cmp(Deref(m.oi), Deref(m.ni)) /\ ~Cmp(Deref(m.ni), Deref(m.oi))

\* an iteration of the loop that ran to its end
IterationStep == mg.pc = "loop" /\ mg'.pc = "loop" /\ mg' # mg

\* C30 as stated, for the merge between iterations and at its end: at most
\* |old| + |new| iterations, both cursors exhausted at the end, and the
\* records written plus the records elided by shadows plus the INIT + DEAD
\* annihilations are as many as the iterations.
MergeTerminationWritten ==
    Running
    => /\ LoopIterations(mg.mc) <= Len(oldBucket.entries) + Len(newBucket.entries)
       /\ mg.pc = "done" => ~ItValid(mg.oi) /\ ~ItValid(mg.ni)
       /\ Len(mg.out.written) + Elisions(mg.mc) + Annihilations(mg.mc)
              = LoopIterations(mg.mc)

\* C30, amended: every iteration advances the old cursor alone, the new
\* cursor alone or, exactly in the equal-keyed case, both by one record; no
\* cursor moves backward; the loop has run at most |old| + |new| iterations
\* and ends with both cursors exhausted; and the records handed to the
\* output builder (written, or a tombstone the builder drops when
\* keepDeadEntries is false) plus the records elided by shadows plus the
\* INIT + DEAD annihilations are as many as the iterations.
MergeTermination ==
    [][/\ mg.pc = "loop"
            => /\ mg'.oi.pos >= mg.oi.pos /\ mg'.ni.pos >= mg.ni.pos
               /\ mg'.oi.pos <= Len(oldBucket.entries) + 1
               /\ mg'.ni.pos <= Len(newBucket.entries) + 1
       /\ IterationStep
            => /\ IF EqualKeyed(mg)
                  THEN /\ mg'.oi.pos = mg.oi.pos + 1
                       /\ mg'.ni.pos = mg.ni.pos + 1
                  ELSE \/ /\ mg'.oi.pos = mg.oi.pos + 1
                          /\ mg'.ni.pos = mg.ni.pos
                       \/ /\ mg'.oi.pos = mg.oi.pos
                          /\ mg'.ni.pos = mg.ni.pos + 1
               /\ LoopIterations(mg'.mc) = LoopIterations(mg.mc) + 1
               /\ LoopIterations(mg'.mc)
                      <= Len(oldBucket.entries) + Len(newBucket.entries)
               /\ Len(mg'.out.puts) + Elisions(mg'.mc) + Annihilations(mg'.mc)
                      = LoopIterations(mg'.mc)
       /\ (mg.pc = "loop" /\ mg'.pc = "done")
            => /\ ~ItValid(mg'.oi) /\ ~ItValid(mg'.ni)
               /\ mg'.oi = mg.oi /\ mg'.ni = mg.ni
               /\ Len(mg'.out.puts) + Elisions(mg'.mc) + Annihilations(mg'.mc)
                      = LoopIterations(mg'.mc)
      ]_vars

\* a merge that is done after an equal-keyed iteration, an elision under a
\* shadow and a tombstone dropped by the builder
MergeTerminationWitness ==
    /\ mg.pc = "done"
    /\ LoopIterations(mg.mc)
          < Len(oldBucket.entries) + Len(newBucket.entries)
    /\ Elisions(mg.mc) > 0
    /\ Len(mg.out.written) < Len(mg.out.puts)

\* the number of the iteration the loop is about to run
ThisIteration == LoopIterations(mg.mc) + 1

\* C27: the loop polls isShutdown at its 1000th, 2000th, ... iteration and
\* at no other; an iteration that polls with the flag set throws the
\* shutdown error before it touches a cursor, the builder or a counter, and
\* no other iteration throws it; while the flag is set the iterations since
\* the last poll only grow and stay below 1000, so fewer than 1000 further
\* iterations run; a merge that threw the shutdown error has handed no
\* bucket to the manager.
ShutdownResponse ==
    [][/\ (mg.pc = "loop" /\ MergeLoopGuard(mg) /\ mg' # mg)
            => /\ mg.iter = (ThisIteration - 1) % ShutdownPollPeriod
               /\ (mg'.iter = 0) <=> (ThisIteration % ShutdownPollPeriod = 0)
               /\ IF ThisIteration % ShutdownPollPeriod = 0 /\ bm.isShutdown
                  THEN /\ mg'.pc = "error"
                       /\ mg'.threw = ErrShutdown
                       /\ mg'.oi = mg.oi /\ mg'.ni = mg.ni
                       /\ mg'.out = mg.out /\ mg'.mc = mg.mc
                  ELSE /\ mg'.threw # ErrShutdown
                       /\ mg'.pc = "loop"
                            => LoopIterations(mg'.mc) = ThisIteration
               /\ (bm.isShutdown /\ mg'.pc = "loop")
                    => /\ mg'.iter = mg.iter + 1
                       /\ mg'.iter < ShutdownPollPeriod
       /\ mg'.threw = ErrShutdown
            => /\ mg'.pc = "error"
               /\ bm'.isShutdown
               /\ bm'.adopted = <<>>
               /\ bm'.mergeKeys = <<>>
               /\ bm'.incrMergeCounters = 0
      ]_vars

\* a merge aborted at its 1000th iteration, the first poll with the flag set
ShutdownResponseWitness ==
    /\ mg.threw = ErrShutdown
    /\ LoopIterations(mg.mc) = ShutdownPollPeriod - 1
    /\ ItValid(mg.oi)
    /\ bm.adopted = <<>>

\* the candidate the iteration at the cursors of m hands to maybePut; None
\* when it hands none
Candidate(m) ==
    IF TakeOld(m) THEN Deref(m.oi)
    ELSE IF TakeNew(m) THEN Deref(m.ni)
    ELSE EqualKeysResult(Deref(m.oi), Deref(m.ni))

\* the entries of the i-th shadow its cursor steps over in the step
SteppedOver(i) ==
    SubSeq(mg.shadowIterators[i].entries, mg.shadowIterators[i].pos,
           mg'.shadowIterators[i].pos - 1)

\* C26: in every iteration that hands a candidate to maybePut, a candidate
\* subject to shadow scanning (any candidate when
\* keepShadowedLifecycleEntries is false, a LIVE one when it is true) is
\* elided, and counted as elided, if some shadow holds a record of equal
\* key and put otherwise; a candidate not subject to it is put and moves no
\* cursor; a shadow cursor never moves backward and steps only over records
\* of keys below the candidate's.
ShadowElisionExact ==
    [][(IterationStep /\ Candidate(mg) # None)
        => LET c == Candidate(mg)
               scanned == ~mg.keepShadowedLifecycleEntries \/ c.type = LIVEENTRY
               elided == /\ mg'.out.puts = mg.out.puts
                         /\ Elisions(mg'.mc) = Elisions(mg.mc) + 1
                         /\ mg'.mc.mShadowElisions[c.type]
                               = mg.mc.mShadowElisions[c.type] + 1
               written == /\ mg'.out.puts = Append(mg.out.puts, c)
                          /\ Elisions(mg'.mc) = Elisions(mg.mc)
           IN /\ IF scanned /\ c.key \in ShadowKeys THEN elided ELSE written
              /\ ~scanned => mg'.shadowIterators = mg.shadowIterators
              /\ \A i \in 1..Len(shadows) :
                    /\ mg'.shadowIterators[i].pos >= mg.shadowIterators[i].pos
                    /\ mg'.shadowIterators[i].pos
                          <= Len(shadows[i].entries) + 1
                    /\ \A j \in 1..Len(SteppedOver(i)) :
                          SteppedOver(i)[j].key < c.key
      ]_vars

\* a merge keeping shadowed lifecycle entries, done, under two shadows: a
\* LIVE candidate was elided by the second shadow only, a lifecycle entry
\* with a shadowed key was put, and a cursor has stepped over a record
ShadowElisionExactWitness ==
    /\ mg.pc = "done"
    /\ mg.keepShadowedLifecycleEntries
    /\ Len(shadows) = 2
    /\ mg.mc.mShadowElisions[LIVEENTRY] = 1
    /\ \E i \in 1..Len(mg.out.puts) :
          /\ mg.out.puts[i].type # LIVEENTRY
          /\ mg.out.puts[i].key \in ShadowKeys
    /\ \E k \in KeysOf(shadows[2].entries) :
          /\ k \notin KeysOf(shadows[1].entries)
          /\ k \notin KeysOf(mg.out.puts)
          /\ k \in KeysOf(oldBucket.entries) \cup KeysOf(newBucket.entries)
    /\ mg.shadowIterators[1].pos > 1

(***************************************************************************)
(* Claims about the lookups.                                               *)
(***************************************************************************)
\* the record of key k in the file, or NoRecord
RecordOf(file, k) ==
    IF \E i \in 2..Len(file) : file[i].key = k
    THEN file[CHOOSE i \in 2..Len(file) : file[i].key = k]
    ELSE NoRecord

PointBucket == lk.levels[1]

\* C23: getBucketEntry(k) has returned none without markBloomMiss when the
\* index has no offset for k; the record of k without markBloomMiss when
\* the index has an offset and the read there finds it; and none after
\* exactly one markBloomMiss when the index has an offset and no record of
\* key k is found there.
PointLookupOutcome ==
    (lk.op = "getBucketEntry" /\ lk.pc = "done")
    => LET offset == IndexLookup(PointBucket.index, lk.k)
           there == RecordOf(PointBucket.file, lk.k)
       IN /\ lk.pos = offset
          /\ offset = NoOffset
               => lk.returned = NoRecord /\ lk.bloomMisses = 0
          /\ (offset # NoOffset /\ there # NoRecord)
               => lk.returned = there /\ lk.bloomMisses = 0
          /\ (offset # NoOffset /\ there = NoRecord)
               => lk.returned = NoRecord /\ lk.bloomMisses = 1

\* the filter let through a key that the page it falls in does not hold
PointLookupOutcomeWitness ==
    /\ lk.op = "getBucketEntry"
    /\ lk.pc = "done"
    /\ lk.pos # NoOffset
    /\ RecordOf(PointBucket.file, lk.k) = NoRecord
    /\ lk.bloomMisses = 1

\* the levels whose bucket holds a record of key k
Holders(k) ==
    {i \in 1..Len(lk.levels) : RecordOf(lk.levels[i].file, k) # NoRecord}

\* the record of key k in the newest bucket that holds one
NewestRecord(k) ==
    LET newest == CHOOSE i \in Holders(k) : \A j \in Holders(k) : i <= j
    IN RecordOf(lk.levels[newest].file, k)

\* the entries the result list gained
Gained == SubSeq(lk.result, Len(lk.result0) + 1, Len(lk.result))

\* the payloads of the newest records of the wanted keys that are not DEAD
Loaded ==
    {liveEntry(NewestRecord(k)) :
       k \in {j \in lk.keys0 : /\ Holders(j) # {}
                               /\ NewestRecord(j).type # DEADENTRY}}

\* C22: after loadKeys has gone through the buckets, newest first, with the
\* same set of keys and the same result list, the list has gained exactly
\* the payload of the newest record of every key first wanted whose newest
\* record is LIVE or INIT, each once, and nothing for a key whose newest
\* record is DEAD; the set holds exactly the keys first wanted that no
\* bucket holds; and at every moment the entries the list first held are
\* still its first entries.
BatchLookup ==
    /\ lk.op = "loadKeys"
         => /\ Len(lk.result) >= Len(lk.result0)
            /\ SubSeq(lk.result, 1, Len(lk.result0)) = lk.result0
    /\ (lk.op = "loadKeys" /\ lk.pc = "done")
         => /\ {Gained[i] : i \in 1..Len(Gained)} = Loaded
            /\ Len(Gained) = Cardinality(Loaded)
            /\ lk.keys = {k \in lk.keys0 : Holders(k) = {}}

\* a key found DEAD in the newest bucket and LIVE in the oldest, next to a
\* key only the oldest bucket holds and a key no bucket holds
BatchLookupWitness ==
    /\ lk.op = "loadKeys"
    /\ lk.pc = "done"
    /\ \E k \in lk.keys0 :
          /\ Holders(k) = 1..Len(lk.levels)
          /\ NewestRecord(k).type = DEADENTRY
          /\ RecordOf(lk.levels[Len(lk.levels)].file, k).type = LIVEENTRY
    /\ \E k \in lk.keys0 : Holders(k) = {Len(lk.levels)}
    /\ lk.keys # {}
    /\ Len(Gained) = 1

\* the entry the result map holds for the pool-share trustline k, if any
PoolEntries(k) == {p.entry : p \in {q \in lk.byPool : q.entry.key = k}}

\* C24: after loadPoolShareTrustLinessByAccount has gone through the
\* buckets, newest first, with the same seen set and result map, the map
\* holds an entry for a pool-share trustline key of the account exactly
\* when the newest record of the key is LIVE or INIT, and then that
\* record's entry under the key of its pool, which is also in the set of
\* pool keys; a key whose newest record is DEAD has no entry at any moment;
\* and no step removes a key from the seen set.
PoolShareScan ==
    [][lk.op = "loadPoolShareTrustLinessByAccount"
       => /\ lk.seen \subseteq lk'.seen
          /\ \A k \in PoolShareKeys :
                (Holders(k) # {} /\ NewestRecord(k).type = DEADENTRY)
                => PoolEntries(k) = {} /\ PoolEntries(k)' = {}
          /\ lk'.pc = "done"
               => /\ \A k \in PoolShareKeys :
                       LET live == /\ Holders(k) # {}
                                   /\ NewestRecord(k).type
                                         \in {LIVEENTRY, INITENTRY}
                           held == {p \in lk'.byPool : p.entry.key = k}
                       IN IF live
                          THEN held = {[key |-> [liquidityPoolID |-> k],
                                        entry |-> liveEntry(NewestRecord(k))]}
                          ELSE held = {}
                  /\ \A p \in lk'.byPool : p.entry.key \in PoolShareKeys
                  /\ lk'.poolKeys = {p.key : p \in lk'.byPool}]_vars

\* a pool share DEAD in the newest bucket and LIVE in the oldest, next to
\* one LIVE in both and a trustline of another asset
PoolShareScanWitness ==
    /\ lk.op = "loadPoolShareTrustLinessByAccount"
    /\ lk.pc = "done"
    /\ \E k \in PoolShareKeys :
          /\ Holders(k) = 1..Len(lk.levels)
          /\ NewestRecord(k).type = DEADENTRY
          /\ RecordOf(lk.levels[Len(lk.levels)].file, k).type = LIVEENTRY
    /\ \E k \in PoolShareKeys :
          /\ Holders(k) = 1..Len(lk.levels)
          /\ NewestRecord(k).type = LIVEENTRY
          /\ RecordOf(lk.levels[Len(lk.levels)].file, k).type = LIVEENTRY
    /\ \E k \in LookupKeys \ PoolShareKeys : Holders(k) # {}
    /\ Cardinality(lk.byPool) = 1

====
